---- MODULE Spec2Model ----
(***************************************************************************)
(* Model of the Moorent Pm onboarding questionnaire: the FormState module  *)
(* (src/js/navigation.js, second IIFE), the FormNav step controller        *)
(* (src/js/navigation.js, first IIFE), the step gate of FormValidation     *)
(* (src/js/validation.js) and the application entry point                  *)
(* (src/unnamed/part_000, app.js).                                         *)
(*                                                                         *)
(* JavaScript values are tagged records: every primitive carries a field   *)
(* t naming its type; an object is a function from property names to       *)
(* values, and an absent property is a name outside its DOMAIN.  Numbers   *)
(* are kept as twice their value (field x2) so that the non-integer 2.5    *)
(* is representable; NaN is the number without that field.                 *)
(***************************************************************************)
EXTENDS Integers, Sequences, FiniteSets, TLC

VARIABLES
    state,                  \* FormState: var state
    localStorageAvailable,  \* FormState: var localStorageAvailable
    item,                   \* localStorage entry under STORAGE_KEY
    medium,                 \* behaviour of the storage medium (environment)
    now,                    \* wall clock read by new Date()
    activeSteps,            \* data-step of the .form-step views carrying class "active"
    chrome,                 \* DOM: the progress bar and the navigation bar
    fields,                 \* DOM: value of the input controls of each step view
    copy,                   \* an object handed out by getState()/getStepData()
    sub,                    \* StepPrivacy: its variables, its controls, the lockout
                            \* marker in storage and the submissions in flight
    saved,                  \* ghost: in-memory state at the last successful setItem
    written,                \* ghost: what setFieldValue calls alone have written
    last                    \* ghost: the last operation, its arguments and result

vars == <<state, localStorageAvailable, item, medium, now, activeSteps, chrome,
          fields, copy, sub, saved, written, last>>

-----------------------------------------------------------------------------
(* Bounds of the model *)

MaxTime == 2
MaxWrites == 3
MaxEvents == 3
MaxDataStep == 1
MaxCopyCalls == 1
MaxSubmissions == 2
MaxHours == 24
MaxClock == 25
MaxTotalEdits == 1
MaxFlowEvents == 4

-----------------------------------------------------------------------------
(* JavaScript values *)

Undefined == [t |-> "undefined"]
Null == [t |-> "null"]
Num(n) == [t |-> "number", x2 |-> 2 * n]
Half(n) == [t |-> "number", x2 |-> 2 * n + 1]
NaN == [t |-> "number", nan |-> TRUE]
Str(s) == [t |-> "string", s |-> s]
Bool(b) == [t |-> "boolean", b |-> b]
\* A text that matters character by character, as the sequence of its pieces
Text(pieces) == [t |-> "string", url |-> pieces]

IsObject(v) == "t" \notin DOMAIN v
EmptyObject == [k \in {} |-> Undefined]
Get(o, k) == IF k \in DOMAIN o THEN o[k] ELSE Undefined
Put(o, k, v) == [q \in DOMAIN o \cup {k} |-> IF q = k THEN v ELSE o[q]]

typeof(v) == IF IsObject(v) \/ v.t = "null" THEN "object" ELSE v.t
IsInteger(v) == ~IsObject(v) /\ v.t = "number" /\ v # NaN /\ v.x2 % 2 = 0

\* !v
Falsy(v) ==
    /\ ~IsObject(v)
    /\ \/ v.t \in {"undefined", "null"}
       \/ v.t = "number" /\ (v = NaN \/ v.x2 = 0)
       \/ v.t = "string" /\ v = Str("")
       \/ v.t = "string" /\ "url" \in DOMAIN v /\ v.url = <<>>
       \/ v.t = "boolean" /\ v = Bool(FALSE)

\* a < b and a >= b of JavaScript on numbers, null (0) and undefined (NaN):
\* any comparison with NaN is false.
Comparable(v) == ~IsObject(v) /\ v.t \in {"number", "null"} /\ v # NaN
ToNumber2(v) == IF v.t = "number" THEN v.x2 ELSE 0
JsLt(a, b) == Comparable(a) /\ Comparable(b) /\ ToNumber2(a) < ToNumber2(b)
JsGe(a, b) == Comparable(a) /\ Comparable(b) /\ ToNumber2(a) >= ToNumber2(b)

\* String(n) for the numbers of the model
NumberToString(v) ==
    IF v = NaN THEN "NaN"
    ELSE IF v.x2 % 2 = 0 THEN ToString(v.x2 \div 2)
    ELSE ToString(v.x2 \div 2) \o ".5"

\* new Date().toISOString() at clock value n
ISOString(n) == [t |-> "string", iso |-> n]

-----------------------------------------------------------------------------
(* JSON and the storage medium *)

\* JSON.stringify: a property whose value is undefined is left out, NaN is
\* written as null, every other value of the model is written as it is.  The
\* result is a JSON text.
RECURSIVE JsonValue(_)
JsonValue(v) ==
    IF ~IsObject(v) THEN (IF v = NaN THEN Null ELSE v)
    ELSE LET kept == {k \in DOMAIN v : IsObject(v[k]) \/ v[k].t # "undefined"}
         IN  [k \in kept |-> JsonValue(v[k])]

JSONstringify(v) == [text |-> "json", value |-> JsonValue(v)]

\* JSON.parse throws a SyntaxError on a text that is not JSON.
JSONparseThrows(text) == text.text # "json"
JSONparse(text) == text.value

\* JSON.parse(JSON.stringify(v)): the deep copy used by the accessors
DeepCopy(v) == JSONparse(JSONstringify(v))

\* The medium: "ok" serves every call; "full" refuses writes with a quota
\* error and serves reads and removals; "blocked" refuses every access with a
\* SecurityError (private browsing, storage disabled).
Mediums == {"ok", "full", "blocked"}
QuotaExceededError == [name |-> "QuotaExceededError", code |-> 22]
SecurityError == [name |-> "SecurityError", code |-> 18]
getItemThrows(w) == w.medium = "blocked"
removeItemThrows(w) == w.medium = "blocked"
setItemThrows(w) == w.medium # "ok"
setItemError(w) == IF w.medium = "full" THEN QuotaExceededError ELSE SecurityError

isQuotaExceeded(e) ==
    IF e.code # 0
    THEN \/ e.code = 22
         \/ e.code = 1014 /\ e.name = "NS_ERROR_DOM_QUOTA_REACHED"
    ELSE e.name \in {"QuotaExceededError", "NS_ERROR_DOM_QUOTA_REACHED"}

-----------------------------------------------------------------------------
(* FormState (src/js/navigation.js).  Every function is an operator on the   *)
(* world w = the module's variables plus the storage it touches; it returns  *)
(* the world after the call, with the call's return value in w.ret and       *)
(* w.threw set when the call ended with an exception instead.                *)

TOTAL_STEPS == 7

StepKeys == {"step" \o ToString(i) : i \in 0 .. TOTAL_STEPS - 1}

defaultState ==
    [currentStep |-> Num(0),
     formData    |-> [k \in StepKeys |-> EmptyObject],
     totalSteps  |-> Num(7),
     lastUpdated |-> Null]

Ret(w, r) == [w EXCEPT !.ret = r]
\* the value a call of saveState returns, also kept in w.saveRet
SaveRet(w, r) == [w EXCEPT !.ret = r, !.saveRet = r]

\* localStorage.removeItem(STORAGE_KEY) inside try { } catch { ignore }
TryRemoveItem(w) == IF removeItemThrows(w) THEN w ELSE [w EXCEPT !.item = Null]

testLocalStorage(w) ==
    [w EXCEPT !.localStorageAvailable = ~setItemThrows(w)]

\* loadState that keeps a record without formData in storage
loadState_KeepCorrupt(w) ==
    IF ~w.localStorageAvailable THEN Ret(w, Bool(FALSE))
    ELSE IF getItemThrows(w) THEN Ret(TryRemoveItem(w), Bool(FALSE))
    ELSE IF w.item = Null THEN Ret(w, Bool(FALSE))
    ELSE IF JSONparseThrows(w.item) THEN Ret(TryRemoveItem(w), Bool(FALSE))
    ELSE LET parsed == JSONparse(w.item)
         IN  IF \/ Falsy(parsed)
                \/ typeof(parsed) # "object"
                \/ Falsy(Get(parsed, "formData"))
             THEN Ret(w, Bool(FALSE))
             ELSE Ret([w EXCEPT !.state = parsed], Bool(TRUE))

loadState(w) ==
    IF ~w.localStorageAvailable THEN Ret(w, Bool(FALSE))
    ELSE IF getItemThrows(w) THEN Ret(TryRemoveItem(w), Bool(FALSE))
    ELSE IF w.item = Null THEN Ret(w, Bool(FALSE))
    ELSE IF JSONparseThrows(w.item) THEN Ret(TryRemoveItem(w), Bool(FALSE))
    ELSE LET parsed == JSONparse(w.item)
         IN  IF \/ Falsy(parsed)
                \/ typeof(parsed) # "object"
                \/ Falsy(Get(parsed, "formData"))
             THEN Ret(TryRemoveItem(w), Bool(FALSE))
             ELSE Ret([w EXCEPT !.state = parsed], Bool(TRUE))

saveState(w) ==
    LET w1 == [w EXCEPT !.state = Put(w.state, "lastUpdated", ISOString(w.now))]
    IN  IF ~w1.localStorageAvailable THEN SaveRet(w1, Bool(FALSE))
        ELSE IF setItemThrows(w1)
             THEN IF isQuotaExceeded(setItemError(w1))
                  THEN SaveRet([w1 EXCEPT !.localStorageAvailable = FALSE],
                               Bool(FALSE))
                  ELSE SaveRet(w1, Bool(FALSE))
             ELSE SaveRet([w1 EXCEPT !.item = JSONstringify(w1.state)], Bool(TRUE))

\* An object handed to a caller: JSON.parse allocates a new object graph, so
\* the object returned by the accessors is reachable from nowhere else
\* (ref = "new"); ref = "state" / "step" would be the module's own object.
NewObject(v) == [ref |-> "new", key |-> "", value |-> v]

\* getState that hands out the module's own state object
getState_Shared(w) == [ref |-> "state", key |-> "", value |-> w.state]

getState(w) == NewObject(DeepCopy(w.state))

getCurrentStep(w) == Get(w.state, "currentStep")

setCurrentStep(w, step) ==
    IF \/ typeof(step) # "number"
       \/ JsLt(step, Num(0))
       \/ JsGe(step, Get(w.state, "totalSteps"))
    THEN Ret(w, Undefined)
    ELSE Ret(saveState([w EXCEPT !.state = Put(w.state, "currentStep", step)]),
             Undefined)

\* 'step' + stepIndex
StepKey(stepIndex) == "step" \o NumberToString(stepIndex)

getStepData(w, stepIndex) ==
    LET key == StepKey(stepIndex)
    IN  IF Falsy(Get(w.state.formData, key)) THEN NewObject(EmptyObject)
        ELSE NewObject(DeepCopy(w.state.formData[key]))

\* setFieldValue that starts the step's map anew on every write
setFieldValue_ReplaceStep(w, stepIndex, fieldName, value) ==
    LET key == StepKey(stepIndex)
        fd2 == Put(w.state.formData, key, Put(EmptyObject, fieldName, value))
    IN  Ret(saveState([w EXCEPT !.state = Put(w.state, "formData", fd2)]),
            Undefined)

\* setFieldValue that keeps the change only when it could be persisted
setFieldValue_OnlyIfSaved(w, stepIndex, fieldName, value) ==
    LET key == StepKey(stepIndex)
        fd0 == w.state.formData
        fd1 == IF Falsy(Get(fd0, key)) THEN Put(fd0, key, EmptyObject) ELSE fd0
        fd2 == Put(fd1, key, Put(fd1[key], fieldName, value))
        w1 == saveState([w EXCEPT !.state = Put(w.state, "formData", fd2)])
    IN  IF w1.saveRet = Bool(TRUE) THEN Ret(w1, Undefined)
        ELSE Ret([w1 EXCEPT !.state = Put(w1.state, "formData", fd0)], Undefined)

setFieldValue(w, stepIndex, fieldName, value) ==
    LET key == StepKey(stepIndex)
        fd0 == w.state.formData
        fd1 == IF Falsy(Get(fd0, key)) THEN Put(fd0, key, EmptyObject) ELSE fd0
        fd2 == Put(fd1, key, Put(fd1[key], fieldName, value))
    IN  Ret(saveState([w EXCEPT !.state = Put(w.state, "formData", fd2)]),
            Undefined)

\* JSON.parse(JSON.stringify(data)) of setStepData: the object it stores
StoredData(data) == NewObject(DeepCopy(data))

\* setStepData that adds the fields of data to the step's map
setStepData_Merge(w, stepIndex, data) ==
    IF Falsy(data) \/ typeof(data) # "object" THEN Ret(w, Undefined)
    ELSE LET key == StepKey(stepIndex)
             old == IF IsObject(Get(w.state.formData, key))
                    THEN w.state.formData[key] ELSE EmptyObject
             new == StoredData(data).value
             merged == [f \in DOMAIN old \cup DOMAIN new |->
                           IF f \in DOMAIN new THEN new[f] ELSE old[f]]
             fd == Put(w.state.formData, key, merged)
         IN  Ret(saveState([w EXCEPT !.state = Put(w.state, "formData", fd)]),
                 Undefined)

setStepData(w, stepIndex, data) ==
    IF Falsy(data) \/ typeof(data) # "object" THEN Ret(w, Undefined)
    ELSE LET fd == Put(w.state.formData, StepKey(stepIndex),
                       StoredData(data).value)
         IN  Ret(saveState([w EXCEPT !.state = Put(w.state, "formData", fd)]),
                 Undefined)

clearState(w) ==
    LET w1 == [w EXCEPT !.state = DeepCopy(defaultState)]
    IN  IF ~w1.localStorageAvailable THEN Ret(w1, Undefined)
        ELSE Ret(TryRemoveItem(w1), Undefined)

hasExistingSession(w) ==
    IF ~w.localStorageAvailable \/ getItemThrows(w) \/ w.item = Null THEN FALSE
    ELSE IF JSONparseThrows(w.item) THEN FALSE
    ELSE LET parsed == JSONparse(w.item)
         IN  ~Falsy(parsed) /\ typeof(parsed) = "object"
                 /\ ~Falsy(Get(parsed, "formData"))

\* Module initialisation: testLocalStorage(); loadState();
FormStateInit(w) == loadState(testLocalStorage(w))

-----------------------------------------------------------------------------
(* The page: step views and their controls (index.html), FormValidation's    *)
(* step gate, FormNav, StepFields and the entry point app.js.                *)

\* The .form-step views, by data-step
StepViews == 0 .. TOTAL_STEPS - 1

\* The named controls of each view and the ones carrying "required"
Controls(k) ==
    CASE k = 1 -> {"nome"}
      [] k = 2 -> {"via-immobile", "spese-condominio", "imu", "tari", "utenze"}
      [] k = 4 -> {"note"}
      [] OTHER -> {}
RequiredControls == {"nome", "via-immobile"}
ExpenseControls == {"spese-condominio", "imu", "tari", "utenze"}
\* The upload zones of the documents view: whether the zone shows a preview
\* (class has-file), the text of its error line, the files whose FileReader
\* has not finished yet in the order of their selection and, as a ghost, the
\* last action the user dispatched on the zone: the file whose read was
\* started, Str("removed") for a click on the remove button, Null for none.
TARGETS == <<"fronte", "retro">>
EmptyZone == [hasFile |-> FALSE, error |-> "", reading |-> <<>>, dispatched |-> Null]
InitialFields ==
    [k \in StepViews |->
        IF k = 3 THEN [fronte |-> EmptyZone, retro |-> EmptyZone]
        ELSE [c \in Controls(k) |-> Str("")]]

\* The progress bar (#form-progress) and the navigation bar (#form-nav with
\* #prevBtn and #nextBtn): the value of the bar, the inline display of the
\* bar of buttons and of each button, and the text of the next button.  Null
\* is what the markup of the page gives before any script has set it.
InitialChrome ==
    [progress |-> Null, formNav |-> Null, prevBtn |-> Null, nextBtn |-> Null,
     nextText |-> Null]

\* What a user can type into a control
ControlInputs(c) ==
    IF c \in ExpenseControls THEN {Str(""), Text(<<"1", "0", "0">>)}
    ELSE {Str(""), Str("Rossi")}

\* field.checkValidity() of the native constraint validation
checkValidity(w, k, c) == c \in RequiredControls => w.fields[k][c] # Str("")

\* The views matched by '.form-step[data-step="' + stepIndex + '"]'
querySelectorStep(stepIndex) ==
    {k \in StepViews : typeof(stepIndex) = "number" /\ Num(k) = stepIndex}

\* FormValidation.showStepErrors: true when the view does not exist,
\* otherwise whether every control of the view is valid.  w.gate keeps the
\* step the gate was asked about.
\* The fiscal-code input of view 1, where the page has one (w.fields[1]
\* then holds it under "codice-fiscale"): its value, whether it carries
\* "required", its custom validity message, aria-invalid, the text of its
\* error annotation ("" for none), whether its warning annotation exists,
\* and whether the cognome and data-nascita inputs are filled in.
CfField(value, required, personal) ==
    [value |-> value, required |-> required, customValidity |-> "",
     ariaInvalid |-> FALSE, errorEl |-> "", warningEl |-> FALSE,
     personal |-> personal]

\* FormValidation.showError and clearError
showError(field, message) ==
    [field EXCEPT !.errorEl = message, !.ariaInvalid = TRUE]
clearError(field) ==
    [field EXCEPT !.errorEl = "", !.ariaInvalid = FALSE, !.customValidity = ""]

\* field.checkValidity() of the fiscal-code input
fieldCheckValidity(field) ==
    field.customValidity = "" /\ (field.required => field.value # "")

\* FormValidation.validateField, with the field it leaves behind
validateField(field) ==
    LET cleared == [field EXCEPT !.customValidity = ""]
    IN  IF fieldCheckValidity(cleared)
        THEN [valid |-> TRUE, field |-> clearError(cleared)]
        ELSE [valid |-> FALSE,
              field |-> showError([cleared EXCEPT !.customValidity =
                                       "Questo campo e obbligatorio"],
                                  "Questo campo e obbligatorio")]

showStepErrors(w, stepIndex) ==
    LET w1 == [w EXCEPT !.gate = stepIndex]
        views == querySelectorStep(stepIndex)
        withCf == {k \in views : k = 1 /\ "codice-fiscale" \in DOMAIN w.fields[1]}
        w2 == IF withCf = {} THEN w1
              ELSE [w1 EXCEPT !.fields[1]["codice-fiscale"] =
                        validateField(w.fields[1]["codice-fiscale"]).field]
    IN  IF views = {} THEN Ret(w1, Bool(TRUE))
        ELSE Ret(w2, Bool(/\ \A k \in views :
                                \A c \in Controls(k) : checkValidity(w1, k, c)
                          /\ \A k \in withCf :
                                validateField(w.fields[1]["codice-fiscale"]).valid))

-----------------------------------------------------------------------------
(* StepDocumenti (src/js/step-documenti.js) and the attachments of a       *)
(* submission.  A text that matters character by character (a data URL, a  *)
(* base64 text) is the sequence of its pieces: "data:", ";base64,", ";",    *)
(* a MIME type without parameters, a run of base64 characters.              *)

\* seq without its element i
RemoveAt(seq, i) == [j \in 1 .. Len(seq) - 1 |-> IF j < i THEN seq[j] ELSE seq[j + 1]]

ALLOWED_TYPES == {"image/jpeg", "image/png", "application/pdf"}
MAX_SIZE_IMAGE == 5 * 1024 * 1024
MAX_SIZE_PDF == 10 * 1024 * 1024

\* validateFile with the limit of PDF files for every type
validateFile_OneLimit(file) ==
    IF file.type \notin ALLOWED_TYPES
    THEN [valid |-> FALSE, error |-> "Formato non supportato"]
    ELSE IF file.size > MAX_SIZE_PDF
         THEN [valid |-> FALSE, error |-> "File troppo grande"]
         ELSE [valid |-> TRUE, error |-> ""]

validateFile(file) ==
    IF file.type \notin ALLOWED_TYPES
    THEN [valid |-> FALSE, error |-> "Formato non supportato"]
    ELSE LET maxSize == IF file.type = "application/pdf"
                        THEN MAX_SIZE_PDF ELSE MAX_SIZE_IMAGE
         IN  IF file.size > maxSize
             THEN [valid |-> FALSE, error |-> "File troppo grande"]
             ELSE [valid |-> TRUE, error |-> ""]

\* The result of FileReader.readAsDataURL: the file's type and the base64
\* text of its bytes, which is empty for a file of no bytes.
readAsDataURL(file) ==
    Text(<<"data:", file.type, ";base64,">>
             \o (IF file.size = 0 THEN <<>> ELSE <<"AAAA">>))

\* handleFile up to the start of the read
handleFile(w, file, target) ==
    LET validation == validateFile(file)
    IN  IF ~validation.valid
        THEN [w EXCEPT !.fields[3][target].error = validation.error]
        ELSE [w EXCEPT !.fields[3][target].error = "",
                       !.fields[3][target].reading = Append(@, file)]

\* The callback of handleFile when the read of pending file i has finished
onFileLoad(w, target, i) ==
    LET file == w.fields[3][target].reading[i]
        name == "documento-" \o target
        w1 == setFieldValue(w, Num(3), name, readAsDataURL(file))
        w2 == setFieldValue(w1, Num(3), name \o "-filename", Str(file.name))
        w3 == setFieldValue(w2, Num(3), name \o "-size", Num(file.size))
        w4 == setFieldValue(w3, Num(3), name \o "-type", Str(file.type))
    IN  [w4 EXCEPT !.fields[3][target].hasFile = TRUE,
                   !.fields[3][target].reading =
                       RemoveAt(w.fields[3][target].reading, i)]

\* The callback of handleFile when the read of pending file i has failed
onFileError(w, target, i) ==
    [w EXCEPT !.fields[3][target].error = "Errore durante la lettura del file",
              !.fields[3][target].reading =
                  RemoveAt(w.fields[3][target].reading, i)]

removeFile(w, target) ==
    LET name == "documento-" \o target
        w1 == setFieldValue(w, Num(3), name, Null)
        w2 == setFieldValue(w1, Num(3), name \o "-filename", Null)
        w3 == setFieldValue(w2, Num(3), name \o "-size", Null)
        w4 == setFieldValue(w3, Num(3), name \o "-type", Null)
    IN  [w4 EXCEPT !.fields[3][target].hasFile = FALSE,
                   !.fields[3][target].error = ""]

restoreUploads(w) ==
    LET step3Data == getStepData(w, Num(3)).value
        shown(target) ==
            /\ ~Falsy(Get(step3Data, "documento-" \o target))
            /\ ~Falsy(Get(step3Data, "documento-" \o target \o "-filename"))
            /\ ~Falsy(Get(step3Data, "documento-" \o target \o "-size"))
            /\ ~Falsy(Get(step3Data, "documento-" \o target \o "-type"))
    IN  [w EXCEPT !.fields[3] =
            [target \in DOMAIN w.fields[3] |->
                [w.fields[3][target] EXCEPT !.hasFile = shown(target)]]]

\* getFilesFromState of StepPrivacy
getFilesFromState(w) ==
    LET step3 == getStepData(w, Num(3)).value
        staged(target) ==
            /\ ~Falsy(Get(step3, "documento-" \o target))
            /\ ~Falsy(Get(step3, "documento-" \o target \o "-filename"))
            /\ ~Falsy(Get(step3, "documento-" \o target \o "-type"))
        entry(target) ==
            [data |-> step3["documento-" \o target],
             fileName |-> step3["documento-" \o target \o "-filename"],
             mimeType |-> step3["documento-" \o target \o "-type"]]
        front == IF staged(TARGETS[1]) THEN <<entry(TARGETS[1])>> ELSE <<>>
        back == IF staged(TARGETS[2]) THEN <<entry(TARGETS[2])>> ELSE <<>>
    IN  front \o back

\* base64Data.match(/^data:[^;]+;base64,(.+)$/): [^;]+ takes the pieces up
\* to the first ";", which must be that of ";base64,", and (.+) needs at
\* least one character after it, none of them a line break.  The result is
\* the index of the first piece of the payload, 0 when there is no match.
dataUrlMatch(u) ==
    LET semis == {j \in 2 .. Len(u) : u[j] \in {";", ";base64,"}}
        k == CHOOSE j \in semis : \A i \in semis : j <= i
    IN  IF Len(u) = 0 \/ u[1] # "data:" \/ semis = {} THEN 0
        ELSE IF k = 2 \/ u[k] # ";base64," \/ k = Len(u) THEN 0
        ELSE IF \E j \in k + 1 .. Len(u) : u[j] = "\n" THEN 0
        ELSE k + 1

\* The loop of submitPreEncoded over encodedFiles
processedFiles(encodedFiles) ==
    [i \in 1 .. Len(encodedFiles) |->
        LET file == encodedFiles[i]
            u == file.data.url
            m == dataUrlMatch(u)
        IN  [data |-> IF m # 0 THEN Text(SubSeq(u, m, Len(u))) ELSE file.data,
             fileName |-> file.fileName,
             mimeType |-> file.mimeType]]

\* ((stepIndex + 1) / TOTAL_STEPS) * 100, kept as its multiple by 14
Percentage(stepIndex) ==
    IF "x2" \in DOMAIN stepIndex
    THEN [t |-> "number", x14 |-> (stepIndex.x2 + 2) * 100]
    ELSE NaN

updateProgress(w, stepIndex) ==
    [w EXCEPT !.chrome.progress = Percentage(stepIndex)]

updateButtons(w, stepIndex) ==
    [w EXCEPT !.chrome.prevBtn =
                  IF stepIndex = Num(0) THEN Str("none") ELSE Str(""),
              !.chrome.nextBtn =
                  IF stepIndex = Num(6) THEN Str("none") ELSE Str(""),
              !.chrome.nextText =
                  IF stepIndex = Num(6) THEN @
                  ELSE IF stepIndex = Num(0) THEN Str("Inizia")
                  ELSE Str("Avanti")]

\* showStep without the update of the buttons
showStep_NoButtons(w, stepIndex) ==
    LET w1 == [w EXCEPT !.activeSteps = querySelectorStep(stepIndex)]
        w2 == IF stepIndex = Num(3) THEN restoreUploads(w1) ELSE w1
    IN  setCurrentStep(updateProgress(w2, stepIndex), stepIndex)

showStep(w, stepIndex) ==
    LET w1 == [w EXCEPT !.activeSteps = querySelectorStep(stepIndex)]
        w2 == IF stepIndex = Num(3) THEN restoreUploads(w1) ELSE w1
    IN  setCurrentStep(updateButtons(updateProgress(w2, stepIndex), stepIndex),
                       stepIndex)

\* currentStep + 1 and currentStep - 1
JsAdd(v, n) ==
    IF v = Null THEN Num(n)
    ELSE IF v = Undefined \/ v = NaN THEN NaN
    ELSE [v EXCEPT !.x2 = @ + 2 * n]

\* navigateForward that advances whatever the step gate says
navigateForward_NoGate(w) ==
    LET currentStep == getCurrentStep(w)
    IN  IF JsGe(currentStep, Num(6)) THEN Ret(w, Undefined)
        ELSE Ret(showStep(w, JsAdd(currentStep, 1)), Undefined)

\* navigateForward that asks the step gate at the welcome step too
navigateForward_GateAtZero(w) ==
    LET currentStep == getCurrentStep(w)
        gated == JsGe(currentStep, Num(0)) /\ JsLt(currentStep, Num(6))
        w1 == IF gated THEN showStepErrors(w, currentStep) ELSE w
    IN  IF JsGe(currentStep, Num(6)) THEN Ret(w, Undefined)
        ELSE IF gated /\ w1.ret = Bool(FALSE) THEN Ret(w1, Undefined)
        ELSE Ret(showStep(w1, JsAdd(currentStep, 1)), Undefined)

navigateForward(w) ==
    LET currentStep == getCurrentStep(w)
        gated == JsLt(Num(0), currentStep) /\ JsLt(currentStep, Num(6))
        w1 == IF gated THEN showStepErrors(w, currentStep) ELSE w
    IN  IF JsGe(currentStep, Num(6)) THEN Ret(w, Undefined)
        ELSE IF gated /\ w1.ret = Bool(FALSE) THEN Ret(w1, Undefined)
        ELSE Ret(showStep(w1, JsAdd(currentStep, 1)), Undefined)

\* navigateBackward that returns to the first step
navigateBackward_ToStart(w) ==
    LET currentStep == getCurrentStep(w)
    IN  IF JsGe(Num(0), currentStep) THEN Ret(w, Undefined)
        ELSE Ret(showStep(w, Num(0)), Undefined)

navigateBackward(w) ==
    LET currentStep == getCurrentStep(w)
    IN  IF JsGe(Num(0), currentStep) THEN Ret(w, Undefined)
        ELSE Ret(showStep(w, JsAdd(currentStep, -1)), Undefined)

\* The characters of a text of digits and the decimal digits of a natural
DigitChars == <<"0", "1", "2", "3", "4", "5", "6", "7", "8", "9">>
IsDigit(c) == \E d \in 1 .. 10 : DigitChars[d] = c
DigitOf(c) == (CHOOSE d \in 1 .. 10 : DigitChars[d] = c) - 1
RECURSIVE Digits(_)
Digits(n) ==
    IF n < 10 THEN <<DigitChars[n + 1]>>
    ELSE Digits(n \div 10) \o <<DigitChars[(n % 10) + 1]>>

\* String(v), character by character.  The numbers of the model are
\* multiples of one half; the texts kept whole (names, notes, dates) are
\* empty or start with a letter, which is all parseFloat looks at.
NumberChars(v) ==
    IF v = NaN THEN <<"N", "a", "N">>
    ELSE LET abs2 == IF v.x2 < 0 THEN 0 - v.x2 ELSE v.x2
         IN  (IF v.x2 < 0 THEN <<"-">> ELSE <<>>)
                 \o Digits(abs2 \div 2)
                 \o (IF abs2 % 2 = 1 THEN <<".", "5">> ELSE <<>>)
Chars(v) ==
    IF IsObject(v) THEN <<"[", "o", "b", "j", "e", "c", "t", "]">>
    ELSE IF v.t = "number" THEN NumberChars(v)
    ELSE IF v.t = "string" /\ "url" \in DOMAIN v THEN v.url
    ELSE IF v = Str("") THEN <<>>
    ELSE <<"a">>

\* parseFloat: leading blanks are skipped, then the longest prefix that is a
\* decimal number is read (sign, digits, a fraction of .5 or .0); NaN when
\* there is none.
RECURSIVE DigitRun(_)
DigitRun(s) ==
    IF s # <<>> /\ IsDigit(Head(s)) THEN 1 + DigitRun(Tail(s)) ELSE 0
RECURSIVE DigitsValue(_, _)
DigitsValue(s, n) ==
    IF n = 0 THEN 0 ELSE 10 * DigitsValue(s, n - 1) + DigitOf(s[n])
RECURSIVE TrimStart(_)
TrimStart(s) == IF s # <<>> /\ Head(s) = " " THEN TrimStart(Tail(s)) ELSE s
\* The number read from the unsigned text body: n integer digits, then the
\* text rest
ParseDigits(body, n, rest, negative) ==
    LET m == IF rest # <<>> /\ Head(rest) = "." THEN DigitRun(Tail(rest)) ELSE 0
        half == IF m > 0 /\ rest[2] = "5" THEN 1 ELSE 0
    IN  IF n = 0 /\ m = 0 THEN NaN
        ELSE [t |-> "number",
              x2 |-> IF negative THEN 0 - (2 * DigitsValue(body, n) + half)
                     ELSE 2 * DigitsValue(body, n) + half]

ParseUnsigned(body, negative) ==
    ParseDigits(body, DigitRun(body),
                SubSeq(body, DigitRun(body) + 1, Len(body)), negative)

ParseTrimmed(trimmed) ==
    IF trimmed # <<>> /\ Head(trimmed) \in {"-", "+"}
    THEN ParseUnsigned(Tail(trimmed), Head(trimmed) = "-")
    ELSE ParseUnsigned(trimmed, FALSE)

parseFloat(v) == ParseTrimmed(TrimStart(Chars(v)))

\* parseFloat(value) || 0
\* n || 0
OrZero(n) == IF Falsy(n) THEN Num(0) ELSE n

ParseFloatOr0(v) == OrZero(parseFloat(v))

\* (a * 12) + b + c + (d * 12) on numbers
AnnualSum(a, b, c, d) ==
    [t |-> "number", x2 |-> (a.x2 * 12) + b.x2 + c.x2 + (d.x2 * 12)]

\* calculateAnnualTotal with the monthly fees counted once
calculateAnnualTotal_NoMonths(w) ==
    LET speseCondominio == ParseFloatOr0(w.fields[2]["spese-condominio"])
        imu == ParseFloatOr0(w.fields[2]["imu"])
        tari == ParseFloatOr0(w.fields[2]["tari"])
        utenze == ParseFloatOr0(w.fields[2]["utenze"])
        total == [t |-> "number",
                  x2 |-> speseCondominio.x2 + imu.x2 + tari.x2 + utenze.x2]
    IN  setFieldValue(w, Num(2), "totale-spese-annuali", total)

calculateAnnualTotal(w) ==
    LET speseCondominio == ParseFloatOr0(w.fields[2]["spese-condominio"])
        imu == ParseFloatOr0(w.fields[2]["imu"])
        tari == ParseFloatOr0(w.fields[2]["tari"])
        utenze == ParseFloatOr0(w.fields[2]["utenze"])
        total == AnnualSum(speseCondominio, imu, tari, utenze)
    IN  setFieldValue(w, Num(2), "totale-spese-annuali", total)

\* calculateTotal of StepReview
calculateTotal(step2Data) ==
    LET speseCondominio == ParseFloatOr0(Get(step2Data, "spese-condominio"))
        imu == ParseFloatOr0(Get(step2Data, "imu"))
        tari == ParseFloatOr0(Get(step2Data, "tari"))
        utenze == ParseFloatOr0(Get(step2Data, "utenze"))
    IN  AnnualSum(speseCondominio, imu, tari, utenze)

\* field.value = savedValue: the text a control shows for a stored value
ControlText(v) ==
    IF v.t = "string" THEN v
    ELSE IF v.t \in {"null", "undefined"} THEN Str("")
    ELSE IF v.t = "number" THEN Text(NumberChars(v))
    ELSE Str("true")

restoreFieldValues(w) ==
    [w EXCEPT !.fields =
        [k \in StepViews |->
            IF k = 3 THEN w.fields[3]
            ELSE [c \in Controls(k) |->
                    LET stepData == getStepData(w, Num(k)).value
                    IN  IF c \in DOMAIN stepData /\ ~IsObject(stepData[c])
                        THEN ControlText(stepData[c])
                        ELSE w.fields[k][c]]]]

\* The delegated input/change handler: the control lives in view k
onFieldChange(w, k, name) == setFieldValue(w, Num(k), name, w.fields[k][name])

\* data-edit-step of the .btn-edit buttons of the review view
EditTargets == 1 .. 4

-----------------------------------------------------------------------------
(* flattenFormData of StepPrivacy (src/unnamed/part_001): the flat record   *)
(* of a submission.  The texts of an address are sequences of pieces: a     *)
(* component's value is one piece, and so is each of " ", "(", ")", ", "    *)
(* and the "undefined" / "null" that string concatenation makes of a        *)
(* missing value.                                                           *)

\* The key of the flat record a field is copied to by the switch; "" for a
\* field the switch leaves out
FlatKey(fieldName) ==
    CASE fieldName = "nome" -> "nome"
      [] fieldName = "cognome" -> "cognome"
      [] fieldName = "data-nascita" -> "dataNascita"
      [] fieldName = "codice-fiscale" -> "codiceFiscale"
      [] fieldName = "email" -> "email"
      [] fieldName = "telefono" -> "telefono"
      [] fieldName = "tracking-source" -> "comeConosciuto"
      [] fieldName = "referral-name" -> "chiPresentato"
      [] fieldName = "altre-spese" -> "note"
      [] fieldName = "spese-condominio" -> "speseCondominio"
      [] fieldName = "imu" -> "imu"
      [] fieldName = "tari" -> "tari"
      [] fieldName = "utenze" -> "utenzeMedie"
      [] OTHER -> ""

\* a + b on texts: the pieces of String(a) followed by those of String(b)
Pieces(v) ==
    IF IsObject(v) THEN <<"[object Object]">>
    ELSE IF v.t = "undefined" THEN <<"undefined">>
    ELSE IF v.t = "null" THEN <<"null">>
    ELSE IF v.t = "number" THEN NumberChars(v)
    ELSE IF v.t = "boolean" THEN <<IF v.b THEN "true" ELSE "false">>
    ELSE IF "url" \in DOMAIN v THEN v.url
    ELSE IF "s" \in DOMAIN v THEN (IF v.s = "" THEN <<>> ELSE <<v.s>>)
    ELSE <<"date">>
Concat(a, b) == Text(Pieces(a) \o Pieces(b))

\* parts.filter(function (p) { return p && p !== '()'; }).join(', ')
RECURSIVE FilterParts(_)
FilterParts(parts) ==
    IF parts = <<>> THEN <<>>
    ELSE LET p == Head(parts)
             kept == ~Falsy(p)
                       /\ ~(typeof(p) = "string" /\ Pieces(p) = <<"(", ")">>)
         IN  (IF kept THEN <<p>> ELSE <<>>) \o FilterParts(Tail(parts))
RECURSIVE Join(_)
Join(parts) ==
    IF parts = <<>> THEN <<>>
    ELSE IF Len(parts) = 1 THEN Pieces(parts[1])
    ELSE Pieces(parts[1]) \o <<", ">> \o Join(Tail(parts))

\* The address built from the components of a step; suffix is "residenza"
\* or "immobile"
Address(step, suffix) ==
    LET parts == <<Get(step, "via-" \o suffix),
                   Get(step, "civico-" \o suffix),
                   Concat(Concat(Get(step, "cap-" \o suffix), Text(<<" ">>)),
                          Get(step, "citta-" \o suffix)),
                   Concat(Concat(Text(<<"(">>),
                                 Get(step, "provincia-" \o suffix)),
                          Text(<<")">>))>>
    IN  Text(Join(FilterParts(parts)))

flattenFormData(formData) ==
    LET steps == {k \in DOMAIN formData : IsObject(formData[k])}
        names == UNION {DOMAIN formData[k] : k \in steps}
        StepOrder(k) == CHOOSE i \in 0 .. TOTAL_STEPS : k = "step" \o ToString(i)
        \* for..in visits step0, step1, ...: the last step holding a field wins
        holder(f) == CHOOSE k \in steps :
                        /\ f \in DOMAIN formData[k]
                        /\ \A j \in steps :
                              f \in DOMAIN formData[j] => StepOrder(j) <= StepOrder(k)
        copied == {f \in names : FlatKey(f) # ""}
        flat0 == [key \in {FlatKey(f) : f \in copied} |->
                    LET f == CHOOSE g \in copied : FlatKey(g) = key
                    IN  formData[holder(f)][f]]
        step1 == IF Falsy(Get(formData, "step1")) THEN EmptyObject
                 ELSE formData["step1"]
        step2 == IF Falsy(Get(formData, "step2")) THEN EmptyObject
                 ELSE formData["step2"]
        flat1 == IF ~Falsy(Get(step1, "via-residenza"))
                 THEN Put(flat0, "indirizzoPersonale", Address(step1, "residenza"))
                 ELSE flat0
        flat2 == IF ~Falsy(Get(step2, "via-immobile"))
                 THEN Put(flat1, "indirizzoImmobile", Address(step2, "immobile"))
                 ELSE flat1
    IN  Put(flat2, "privacyAccettata", Bool(TRUE))

\* The world: the variables of the model as one record
World ==
    [state |-> state, localStorageAvailable |-> localStorageAvailable,
     item |-> item, medium |-> medium, now |-> now,
     activeSteps |-> activeSteps, chrome |-> chrome, fields |-> fields,
     ret |-> Undefined,
     saveRet |-> Undefined, threw |-> FALSE, gate |-> Undefined]

-----------------------------------------------------------------------------
(* StepPrivacy (src/unnamed/part_001) and FormSubmission                     *)
(* (src/unnamed/part_003).  p is StepPrivacy's part of the page: its         *)
(* variables, the consent checkbox and the submit button, the lockout        *)
(* marker under SUBMISSION_KEY, the wall clock in hours and the submissions  *)
(* whose promise is still pending.  Functions that also touch FormState or   *)
(* the step views return the pair [w, p].                                    *)

SUBMISSION_LOCKOUT_HOURS == 24
DefaultMaxAttempts == 3

\* The outcome of the last submission that reached one (ghost)
NoOutcome == [outcome |-> "none", attempt |-> 0, delays |-> <<>>]

\* A newly loaded page before StepPrivacy.init
FreshPrivacy(marker, hours, checked) ==
    [marker |-> marker, hours |-> hours, armed |-> FALSE, success |-> FALSE,
     hasSubmitted |-> FALSE, checked |-> checked, disabled |-> FALSE,
     loadingInterval |-> Null, tickers |-> <<>>, alerts |-> 0,
     flights |-> <<>>, started |-> 0, done |-> NoOutcome,
     succeededAt |-> Null, sent |-> <<>>]

\* new Date(submittedTimestamp), in hours
DateParse(stamp) == stamp.iso

\* checkDuplicatePrevention that still locks at exactly 24 hours
checkDuplicatePrevention_Inclusive(w, p) ==
    IF getItemThrows(w) THEN FALSE
    ELSE IF Falsy(p.marker) THEN FALSE
    ELSE IF "iso" \notin DOMAIN p.marker THEN FALSE
    ELSE p.hours - DateParse(p.marker) <= SUBMISSION_LOCKOUT_HOURS

\* checkDuplicatePrevention.  A stored text that is no date gives an Invalid
\* Date: hoursDiff is NaN and NaN < 24 is false.
checkDuplicatePrevention(w, p) ==
    IF getItemThrows(w) THEN FALSE
    ELSE IF Falsy(p.marker) THEN FALSE
    ELSE IF "iso" \notin DOMAIN p.marker THEN FALSE
    ELSE p.hours - DateParse(p.marker) < SUBMISSION_LOCKOUT_HOURS

markSubmitted(w, p) ==
    IF setItemThrows(w) THEN p ELSE [p EXCEPT !.marker = ISOString(p.hours)]

\* The status ticker.  A ticker is the interval timer started by
\* startLoadingMessages with the variables of its callback: id is the timer
\* identifier, index the callback's variable index, text the position in
\* LOADING_MESSAGES of the message its element #loading-message holds, timer
\* whether the interval is still active and shown whether the element is
\* still in the document.  p.loadingInterval is the identifier held by the
\* variable loadingInterval, or Null.
LOADING_MESSAGES_length == 8

\* The tickers that still have an active timer or an element in the page
LiveTickers(tickers) == SelectSeq(tickers, LAMBDA t : t.timer \/ t.shown)

\* clearInterval(id)
clearInterval(tickers, id) ==
    [i \in DOMAIN tickers |->
        IF tickers[i].id = id THEN [tickers[i] EXCEPT !.timer = FALSE]
        ELSE tickers[i]]

startLoadingMessages(p) ==
    [p EXCEPT !.tickers = Append(@, [id |-> Num(p.started + 1), index |-> 1,
                                     text |-> 0, timer |-> TRUE,
                                     shown |-> TRUE]),
              !.loadingInterval = Num(p.started + 1)]

\* The callback of the interval of ticker i
onLoadingInterval(p, i) ==
    IF p.tickers[i].index < LOADING_MESSAGES_length
    THEN [p EXCEPT !.tickers[i].text = p.tickers[i].index,
                   !.tickers[i].index = @ + 1]
    ELSE [p EXCEPT !.tickers = LiveTickers(clearInterval(@, p.loadingInterval)),
                   !.loadingInterval = Null]

\* document.getElementById('loading-message').remove(): the first one
RemoveMessage(tickers) ==
    [i \in DOMAIN tickers |->
        IF tickers[i].shown /\ \A j \in 1 .. i - 1 : ~tickers[j].shown
        THEN [tickers[i] EXCEPT !.shown = FALSE]
        ELSE tickers[i]]

\* showSuccessState: the content of main.form-container, step views, consent
\* checkbox and submit button included, is replaced by the thank-you message
\* and the navigation bar is hidden.
showSuccessState(w, p) ==
    [w |-> [w EXCEPT !.activeSteps = {},
                     !.chrome.formNav = Str("none"),
                     !.chrome.progress = [t |-> "number", x14 |-> 1400]],
     p |-> [p EXCEPT !.success = TRUE,
                     !.tickers = LiveTickers([i \in DOMAIN @ |->
                                     [@[i] EXCEPT !.shown = FALSE]])]]

\* handleSubmitSuccess that resets hasSubmitted as handleSubmitError does
handleSubmitSuccess_ResetFlag(w, p) ==
    LET shown == showSuccessState(w, markSubmitted(w, p))
    IN  [w |-> clearState(shown.w),
         p |-> [shown.p EXCEPT !.hasSubmitted = FALSE]]

handleSubmitSuccess(w, p) ==
    LET shown == showSuccessState(w, markSubmitted(w, p))
    IN  [w |-> clearState(shown.w), p |-> shown.p]

stopLoadingMessages(p) ==
    [p EXCEPT !.tickers = LiveTickers(RemoveMessage(
                              IF p.loadingInterval # Null
                              THEN clearInterval(@, p.loadingInterval) ELSE @)),
              !.loadingInterval = Null]


\* handleSubmitError that leaves hasSubmitted set
handleSubmitError_KeepFlag(w, p) ==
    LET p1 == stopLoadingMessages(p)
        p2 == IF p1.checked THEN [p1 EXCEPT !.disabled = FALSE] ELSE p1
    IN  [w |-> w, p |-> [p2 EXCEPT !.alerts = @ + 1]]

handleSubmitError(w, p) ==
    LET p1 == [stopLoadingMessages(p) EXCEPT !.hasSubmitted = FALSE]
        p2 == IF p1.checked THEN [p1 EXCEPT !.disabled = FALSE] ELSE p1
    IN  [w |-> w, p |-> [p2 EXCEPT !.alerts = @ + 1]]

\* JSON.stringify(payload) of attemptSubmit
RequestBody(payload) ==
    [text |-> "json",
     value |-> [action |-> payload.action,
                data |-> JsonValue(payload.data),
                files |-> [i \in DOMAIN payload.files |->
                              JsonValue(payload.files[i])]]]

\* What handleSubmit and submitPreEncoded make of the page w: the flattened
\* copy of the form data and the attachments of step 3
BuildPayload(w) ==
    [action |-> Str("submit"),
     data |-> flattenFormData(getState(w).value.formData),
     files |-> processedFiles(getFilesFromState(w))]

\* The body of a request built from the page as it is when the request is
\* issued
fetchBody_Live(f) == RequestBody(BuildPayload(World))

\* The body of the request attemptSubmit issues for pending submission f
fetchBody(f) == RequestBody(f.payload)

\* submitWithRetry(payload, 3) up to its first fetch: attemptSubmit sets
\* attempt to 1 and issues the request.
submitWithRetry(payload, consent) ==
    [attempt |-> 1, phase |-> "request", delays |-> <<>>, consent |-> consent,
     payload |-> payload]

\* handleSubmit from the flag to the pending submission f.  sent is the ghost
\* of the bodies of the requests issued for the submission in flight.
Started(p, f) ==
    [startLoadingMessages(p) EXCEPT
        !.hasSubmitted = TRUE, !.disabled = TRUE, !.started = @ + 1,
        !.flights = Append(@, f),
        !.sent = <<fetchBody(f)>>]

\* handleSubmit that starts a submission whatever hasSubmitted says
handleSubmit_NoFlag(w, p) ==
    IF ~p.checked THEN [w |-> w, p |-> p]
    ELSE [w |-> w,
          p |-> Started(p, submitWithRetry(BuildPayload(w), p.checked))]

\* handleSubmit that does not look at the consent checkbox
handleSubmit_NoConsent(w, p) ==
    IF p.hasSubmitted THEN [w |-> w, p |-> p]
    ELSE [w |-> w,
          p |-> Started(p, submitWithRetry(BuildPayload(w), p.checked))]

\* handleSubmit, with FormState and FormSubmission loaded
handleSubmit(w, p) ==
    IF p.hasSubmitted THEN [w |-> w, p |-> p]
    ELSE IF ~p.checked THEN [w |-> w, p |-> p]
    ELSE [w |-> w,
          p |-> Started(p, submitWithRetry(BuildPayload(w), p.checked))]

\* The checkbox's change listener
onConsentChange(p) == [p EXCEPT !.disabled = ~p.checked]

\* StepPrivacy.init, the checkbox and the button being part of the page
StepPrivacy_init(w, p) ==
    IF checkDuplicatePrevention(w, p) THEN showSuccessState(w, p)
    ELSE [w |-> w, p |-> [p EXCEPT !.disabled = TRUE, !.armed = TRUE]]

\* Responses of the delivery endpoint: the transport fails, or a response
\* arrives with response.ok and a body text that is JSON or is not.
NetworkError == [transport |-> "error"]
HttpResponse(ok, body) == [transport |-> "done", ok |-> ok, body |-> body]
Responses ==
    {NetworkError,
     HttpResponse(FALSE, JSONstringify([success |-> Bool(TRUE)])),
     HttpResponse(TRUE, JSONstringify([success |-> Bool(FALSE)])),
     HttpResponse(TRUE, JSONstringify([success |-> Bool(TRUE)])),
     HttpResponse(TRUE, JSONstringify(EmptyObject)),
     HttpResponse(TRUE, [text |-> "garbage"])}

\* The promise chain of attemptSubmit rejects before its catch handler:
\* fetch rejected, response.ok is false, response.json() rejected, or
\* result.success === false.
AttemptFails(response) ==
    \/ response.transport = "error"
    \/ ~response.ok
    \/ JSONparseThrows(response.body)
    \/ Get(JSONparse(response.body), "success") = Bool(FALSE)

\* attemptSubmit that retries at once, without the backoff timer
onResponse_NoBackoff(w, p, i, response) ==
    LET f == p.flights[i]
        finished == [p EXCEPT !.flights = RemoveAt(@, i), !.sent = <<>>]
    IN  IF ~AttemptFails(response)
        THEN handleSubmitSuccess(w,
                 [finished EXCEPT !.succeededAt = ISOString(p.hours),
                      !.done = [outcome |-> "success",
                                attempt |-> f.attempt, delays |-> f.delays]])
        ELSE IF f.attempt < DefaultMaxAttempts
        THEN [w |-> w,
              p |-> [p EXCEPT !.flights[i].attempt = f.attempt + 1]]
        ELSE handleSubmitError(w,
                 [finished EXCEPT !.done = [outcome |-> "failure",
                      attempt |-> f.attempt, delays |-> f.delays]])

\* The request of pending submission i completes with response: the then /
\* catch handlers of attemptSubmit, then those of submitPreEncoded and of
\* handleSubmit when the submission has reached its outcome.
onResponse(w, p, i, response) ==
    LET f == p.flights[i]
        finished == [p EXCEPT !.flights = RemoveAt(@, i), !.sent = <<>>]
    IN  IF ~AttemptFails(response)
        THEN handleSubmitSuccess(w,
                 [finished EXCEPT !.succeededAt = ISOString(p.hours),
                      !.done = [outcome |-> "success",
                                attempt |-> f.attempt, delays |-> f.delays]])
        ELSE IF f.attempt < DefaultMaxAttempts
        THEN [w |-> w,
              p |-> [p EXCEPT !.flights[i].phase = "backoff",
                              !.flights[i].delays =
                                  Append(@, (2 ^ (f.attempt - 1)) * 1000)]]
        ELSE handleSubmitError(w,
                 [finished EXCEPT !.done = [outcome |-> "failure",
                      attempt |-> f.attempt, delays |-> f.delays]])

\* A backoff timer whose callback issues the request twice
onBackoffElapsed_TwoRequests(p, i) ==
    [p EXCEPT !.flights = Append([@ EXCEPT ![i].phase = "request",
                                            ![i].attempt = @ + 1],
                                 [@[i] EXCEPT !.phase = "request",
                                              !.attempt = @ + 1])]

\* The backoff timer of pending submission i fires: attemptSubmit again
onBackoffElapsed(p, i) ==
    [p EXCEPT !.flights[i].phase = "request", !.flights[i].attempt = @ + 1,
              !.sent = Append(@, fetchBody(p.flights[i]))]

\* The DOMContentLoaded handler of app.js: session resume, showStep,
\* restoreFieldValues, StepFields.init and StepPrivacy.init.
DOMContentLoaded(w, p) ==
    LET w1 == loadState(w)
        sessionExists == w1.ret = Bool(TRUE)
        savedStep == getCurrentStep(w1)
        startStep == IF /\ sessionExists
                        /\ JsGe(savedStep, Num(0))
                        /\ JsLt(savedStep, Num(7))
                     THEN savedStep ELSE Num(0)
        w2 == showStep(w1, startStep)
        w3 == restoreFieldValues(w2)
        w4 == restoreUploads(calculateAnnualTotal(w3))
    IN  StepPrivacy_init(Ret(w4, Undefined), p)

-----------------------------------------------------------------------------
(* The world of one page session and the inputs of the model *)

\* The world when the scripts of a newly loaded page start to run
FreshWorld(it, m, t) ==
    [state |-> DeepCopy(defaultState), localStorageAvailable |-> TRUE,
     item |-> it, medium |-> m, now |-> t,
     activeSteps |-> {}, chrome |-> InitialChrome, fields |-> InitialFields,
     ret |-> Undefined,
     saveRet |-> Undefined, threw |-> FALSE, gate |-> Undefined]

FieldNames == {"nome", "note"}
FieldValues == {Str("Rossi"), Bool(TRUE)}

\* Step indices passed to setFieldValue / setStepData / getStepData
DataStepArgs == {Num(i) : i \in 0 .. MaxDataStep} \cup {Num(TOTAL_STEPS)}

\* Arguments passed to setCurrentStep
StepArgs ==
    {Num(-1), Num(TOTAL_STEPS - 1), Num(TOTAL_STEPS), Half(2), NaN, Str("3")}

\* Arguments passed to setStepData as data
DataArgs == {EmptyObject, [nome |-> Str("Bianchi")], Null}

\* Records found under STORAGE_KEY when a page loads: none, a text that is
\* not JSON, JSON that is no object, an object without formData, a record
\* written by saveState, and records of the accepted shape {formData: ...}
\* that saveState did not write.
SavedRecord ==
    JSONstringify([currentStep |-> Num(3),
                   formData |-> [defaultState.formData EXCEPT
                                    !["step1"] = [nome |-> Str("Verdi")]],
                   totalSteps |-> Num(7),
                   lastUpdated |-> ISOString(-1)])
\* a record saveState wrote while the user was on the property step
Step2Record ==
    JSONstringify([currentStep |-> Num(2),
                   formData |-> [defaultState.formData EXCEPT
                                    !["step1"] = [nome |-> Str("Verdi")]],
                   totalSteps |-> Num(7),
                   lastUpdated |-> ISOString(-1)])
\* a record saveState wrote while the user was on the last step
Step6Record ==
    JSONstringify([currentStep |-> Num(6),
                   formData |-> [defaultState.formData EXCEPT
                                    !["step1"] = [nome |-> Str("Verdi")]],
                   totalSteps |-> Num(7),
                   lastUpdated |-> ISOString(-1)])
\* a record saveState wrote while the user was on the notes step
Step4Record ==
    JSONstringify([currentStep |-> Num(4),
                   formData |-> [defaultState.formData EXCEPT
                                    !["step1"] = [nome |-> Str("Verdi")]],
                   totalSteps |-> Num(7),
                   lastUpdated |-> ISOString(-1)])
SubmitRecords == {Step4Record, Step6Record}

CorruptRecords ==
    {[text |-> "garbage"],
     JSONstringify(Num(5)),
     JSONstringify(Null),
     JSONstringify([currentStep |-> Num(2)]),
     JSONstringify([currentStep |-> Num(2), formData |-> Null])}
ForeignRecords ==
    {JSONstringify([currentStep |-> Num(9), formData |-> defaultState.formData]),
     JSONstringify([currentStep |-> Half(2), formData |-> defaultState.formData,
                    totalSteps |-> Num(7), lastUpdated |-> Null]),
     JSONstringify([currentStep |-> Num(1),
                    formData |-> [step1 |-> [nome |-> Str("Verdi")]],
                    totalSteps |-> Num(7), lastUpdated |-> Null])}
InitRecords == {Null, SavedRecord} \cup CorruptRecords \cup ForeignRecords
NavRecords ==
    {Null, SavedRecord, Step2Record, Step6Record}
        \cup ForeignRecords \cup CorruptRecords

NoCopy == [ref |-> "none", key |-> "", value |-> Null]
\* The ghost of the last call: its name, its arguments, what it returned,
\* what the saveState it made returned (Undefined when it made none) and
\* whether an exception reached the caller.
Op(name, s, f, v, w) ==
    [op |-> name, step |-> s, field |-> f, value |-> v, ret |-> w.ret,
     saveRet |-> w.saveRet, threw |-> w.threw, gate |-> w.gate]

\* The ghost of the fields written by setFieldValue since the state was the
\* default one; Null once anything else has replaced the form data.
NothingWritten == [k \in StepKeys |-> EmptyObject]
WrittenAfter(wr, stepIndex, fieldName, value) ==
    IF wr = Null THEN Null
    ELSE Put(wr, StepKey(stepIndex),
             Put(IF StepKey(stepIndex) \in DOMAIN wr
                 THEN wr[StepKey(stepIndex)] ELSE EmptyObject,
                 fieldName, value))

\* The new values of the program's variables after a call, with the ghost of
\* the state last written to the medium.
CommitWorld(w) ==
    /\ state' = w.state
    /\ localStorageAvailable' = w.localStorageAvailable
    /\ item' = w.item
    /\ activeSteps' = w.activeSteps
    /\ chrome' = w.chrome
    /\ fields' = w.fields
    /\ saved' = IF w.item = item THEN saved
                ELSE IF w.item = Null THEN Null ELSE w.state

\* A call that leaves StepPrivacy alone
Commit(w) == CommitWorld(w) /\ sub' = sub

-----------------------------------------------------------------------------
(* Page load and the calls of the FormState API.  The clock advances by one  *)
(* with every call.                                                          *)

\* The scripts of a newly loaded page have run over record it and medium m:
\* FormState has initialised itself (testLocalStorage(); loadState();).
PageLoaded(it, m, t, name) ==
    LET w == FormStateInit(FreshWorld(it, m, t))
    IN  [state |-> w.state,
         localStorageAvailable |-> w.localStorageAvailable,
         item |-> w.item,
         activeSteps |-> w.activeSteps,
         chrome |-> w.chrome,
         fields |-> w.fields,
         written |-> IF w.ret = Bool(TRUE) THEN Null ELSE NothingWritten,
         last |-> Op(name, Undefined, "", it, w)]

InitWith(records) ==
    \E it \in records, m \in Mediums :
        LET p == PageLoaded(it, m, 0, "load")
        IN  /\ medium = m
            /\ now = 0
            /\ state = p.state
            /\ localStorageAvailable = p.localStorageAvailable
            /\ item = p.item
            /\ activeSteps = p.activeSteps
            /\ chrome = p.chrome
            /\ fields = p.fields
            /\ written = p.written
            /\ last = p.last
            /\ saved = Null
            /\ copy = NoCopy
            /\ sub = FreshPrivacy(Null, 0, FALSE)

Init == InitWith(InitRecords)

Called(max) == now < max /\ now' = now + 1

SetFieldValueIn(max, names) ==
    \E i \in DataStepArgs, f \in names, v \in FieldValues :
        LET w == setFieldValue(World, i, f, v)
        IN  /\ Called(max)
            /\ Commit(w)
            /\ written' = WrittenAfter(written, i, f, v)
            /\ last' = Op("setFieldValue", i, f, v, w)
            /\ UNCHANGED <<medium, copy>>

SetFieldValue == SetFieldValueIn(MaxTime, {"nome"})

SetStepDataIn(max) ==
    \E i \in DataStepArgs, d \in DataArgs :
        LET w == setStepData(World, i, d)
        IN  /\ Called(max)
            /\ Commit(w)
            /\ written' = IF w.state.formData = state.formData THEN written ELSE Null
            /\ last' = Op("setStepData", i, "", d, w)
            /\ UNCHANGED <<medium, copy>>

SetStepData == SetStepDataIn(MaxTime)

SetCurrentStepIn(max) ==
    \E n \in StepArgs :
        LET w == setCurrentStep(World, n)
        IN  /\ Called(max)
            /\ Commit(w)
            /\ last' = Op("setCurrentStep", n, "", Undefined, w)
            /\ UNCHANGED <<medium, copy, written>>

SetCurrentStep == SetCurrentStepIn(MaxTime)

LoadState ==
    LET w == loadState(World)
    IN  /\ Called(MaxTime)
        /\ Commit(w)
        /\ written' = IF w.ret = Bool(TRUE) THEN Null ELSE written
        /\ last' = Op("loadState", Undefined, "", Undefined, w)
        /\ UNCHANGED <<medium, copy>>

SaveState ==
    LET w == saveState(World)
    IN  /\ Called(MaxTime)
        /\ Commit(w)
        /\ last' = Op("saveState", Undefined, "", Undefined, w)
        /\ UNCHANGED <<medium, copy, written>>

ClearStateIn(max) ==
    LET w == clearState(World)
    IN  /\ Called(max)
        /\ Commit(w)
        /\ written' = NothingWritten
        /\ last' = Op("clearState", Undefined, "", Undefined, w)
        /\ UNCHANGED <<medium, copy>>

ClearState == ClearStateIn(MaxTime)

\* The page is loaded again: a new FormState module over the same medium.
Reload ==
    LET p == PageLoaded(item, medium, now, "reload")
    IN  /\ Called(MaxTime + 1)
        /\ state' = p.state
        /\ localStorageAvailable' = p.localStorageAvailable
        /\ item' = p.item
        /\ activeSteps' = p.activeSteps
        /\ chrome' = p.chrome
        /\ fields' = p.fields
        /\ written' = p.written
        /\ last' = p.last
        /\ saved' = IF p.item = item THEN saved ELSE Null
        /\ copy' = NoCopy
        /\ UNCHANGED <<medium, sub>>

\* The environment: the medium runs out of room or gets room again.  A
\* blocked medium stays blocked.
MediumChange ==
    /\ medium # "blocked"
    /\ medium' = IF medium = "ok" THEN "full" ELSE "ok"
    /\ UNCHANGED <<state, localStorageAvailable, item, now, activeSteps, chrome, fields,
                   copy, sub, saved, written, last>>

Next ==
    \/ SetFieldValue
    \/ SetStepData
    \/ SetCurrentStep
    \/ LoadState
    \/ SaveState
    \/ ClearState
    \/ Reload
    \/ MediumChange

Spec == Init /\ [][Next]_vars

-----------------------------------------------------------------------------
(* The page session: the state after the DOMContentLoaded handler, and the   *)
(* user's events.                                                            *)

\* The page after the load r of the stored record it
LoadedPage(r, it, name) ==
    [sub |-> r.p,
     state |-> r.w.state,
     localStorageAvailable |-> r.w.localStorageAvailable,
     item |-> r.w.item,
     activeSteps |-> r.w.activeSteps,
     chrome |-> r.w.chrome,
     fields |-> r.w.fields,
     saved |-> IF r.w.item = it \/ r.w.item = Null THEN Null ELSE r.w.state,
     last |-> Op(name, Undefined, "", it, r.w)]

PageReadyWith(it, m, t, name, p0) ==
    LoadedPage(DOMContentLoaded(FormStateInit(FreshWorld(it, m, t)), p0),
               it, name)

PageReady(it, m, t, name) ==
    PageReadyWith(it, m, t, name, FreshPrivacy(Null, 0, FALSE))

InitNav ==
    \E it \in NavRecords, m \in Mediums :
        LET p == PageReady(it, m, 0, "load")
        IN  /\ medium = m
            /\ now = 0
            /\ state = p.state
            /\ localStorageAvailable = p.localStorageAvailable
            /\ item = p.item
            /\ activeSteps = p.activeSteps
            /\ chrome = p.chrome
            /\ fields = p.fields
            /\ saved = p.saved
            /\ last = p.last
            /\ written = Null
            /\ copy = NoCopy
            /\ sub = p.sub

\* A click on the "next" button
NavigateForwardIn(max) ==
    LET w == navigateForward(World)
    IN  /\ ~sub.success
        /\ Called(max)
        /\ Commit(w)
        /\ last' = Op("navigateForward", getCurrentStep(World), "",
                      showStepErrors(World, getCurrentStep(World)).ret, w)
        /\ UNCHANGED <<medium, copy, written>>

NavigateForward == NavigateForwardIn(MaxEvents)

\* A click on the "previous" button
NavigateBackward ==
    LET w == navigateBackward(World)
    IN  /\ ~sub.success
        /\ Called(MaxEvents)
        /\ Commit(w)
        /\ last' = Op("navigateBackward", getCurrentStep(World), "", Undefined, w)
        /\ UNCHANGED <<medium, copy, written>>

\* A click on an edit button of the review view (attachEditButtons)
EditStep ==
    \E target \in EditTargets :
        LET w == showStep(World, Num(target))
        IN  /\ 5 \in activeSteps
            /\ ~sub.success
            /\ Called(MaxEvents)
            /\ Commit(w)
            /\ last' = Op("editStep", Num(target), "", Undefined, w)
            /\ UNCHANGED <<medium, copy, written>>

\* The user types into a control of the visible view: the control's own
\* input listener (expense controls: calculateAnnualTotal) runs, then the
\* delegated onFieldChange.
InputAt(views) ==
    \E k \in activeSteps \cap views :
        \E c \in Controls(k) :
            \E v \in ControlInputs(c) :
                LET w0 == [World EXCEPT !.fields[k][c] = v]
                    w1 == IF c \in ExpenseControls THEN calculateAnnualTotal(w0)
                          ELSE w0
                    w == onFieldChange(w1, k, c)
                IN  /\ Called(MaxEvents)
                    /\ Commit(w)
                    /\ last' = Op("input", Num(k), c, v, w)
                    /\ UNCHANGED <<medium, copy, written>>

Input == InputAt(StepViews)

NextNav ==
    \/ NavigateForward
    \/ NavigateBackward
    \/ EditStep
    \/ Input
    \/ MediumChange

SpecNav == InitNav /\ [][NextNav]_vars

-----------------------------------------------------------------------------
(* The page session with the privacy step: consent, submission, the       *)
(* responses of the delivery endpoint, the backoff timers, the passing of *)
(* wall-clock time and reloads of the page.                                *)

InitSubmit ==
    \E it \in SubmitRecords, m \in Mediums :
        LET p == PageReady(it, m, 0, "load")
        IN  /\ medium = m
            /\ now = 0
            /\ state = p.state
            /\ localStorageAvailable = p.localStorageAvailable
            /\ item = p.item
            /\ activeSteps = p.activeSteps
            /\ chrome = p.chrome
            /\ fields = p.fields
            /\ saved = p.saved
            /\ last = p.last
            /\ written = Null
            /\ copy = NoCopy
            /\ sub = p.sub

\* The user ticks or unticks the consent checkbox of the privacy view
ToggleConsent ==
    /\ sub.armed /\ ~sub.success
    /\ 6 \in activeSteps
    /\ sub' = onConsentChange([sub EXCEPT !.checked = ~@])
    /\ last' = Op("consent", Undefined, "", Bool(~sub.checked), World)
    /\ UNCHANGED <<state, localStorageAvailable, item, medium, now,
                   activeSteps, chrome, fields, copy, saved, written>>

\* The click listener of the submit button runs: a click on the enabled
\* button, or an event dispatched to it while it is disabled.  last.value
\* tells whether a submission was pending when it ran.
SubmitClick ==
    LET r == handleSubmit(World, sub)
    IN  /\ sub.armed /\ ~sub.success
        /\ 6 \in activeSteps
        /\ sub.started < MaxSubmissions
        /\ CommitWorld(r.w)
        /\ sub' = r.p
        /\ last' = Op("submit", Undefined, "", Bool(sub.flights # <<>>), r.w)
        /\ UNCHANGED <<medium, now, copy, written>>

\* The request of a pending submission completes
Respond ==
    \E i \in 1 .. Len(sub.flights) :
        \E response \in Responses :
            LET r == onResponse(World, sub, i, response)
            IN  /\ sub.flights[i].phase = "request"
                /\ CommitWorld(r.w)
                /\ sub' = r.p
                /\ last' = Op("response", Num(sub.flights[i].attempt), "",
                              response, r.w)
                /\ UNCHANGED <<medium, now, copy, written>>

\* The backoff timer of a pending submission fires
BackoffElapsed ==
    \E i \in 1 .. Len(sub.flights) :
        /\ sub.flights[i].phase = "backoff"
        /\ sub' = onBackoffElapsed(sub, i)
        /\ last' = Op("backoff", Undefined, "", Undefined, World)
        /\ UNCHANGED <<state, localStorageAvailable, item, medium, now,
                       activeSteps, chrome, fields, copy, saved, written>>

\* Half a lockout period of wall-clock time passes on the thank-you page
HoursPass ==
    /\ sub.hours < MaxHours
    /\ sub.success
    /\ sub' = [sub EXCEPT !.hours = @ + SUBMISSION_LOCKOUT_HOURS \div 2]
    /\ UNCHANGED <<state, localStorageAvailable, item, medium, now,
                   activeSteps, chrome, fields, copy, saved, written, last>>

\* The thank-you page is loaded again: the scripts start afresh, storage is
\* what it was.  (A load before the submission is an initial state.)
ReloadPage ==
    LET p == PageReadyWith(item, medium, now, "reload",
                 [FreshPrivacy(sub.marker, sub.hours, FALSE)
                      EXCEPT !.succeededAt = sub.succeededAt,
                             !.started = sub.started])
    IN  /\ sub.flights = <<>>
        /\ sub.success
        /\ state' = p.state
        /\ localStorageAvailable' = p.localStorageAvailable
        /\ item' = p.item
        /\ activeSteps' = p.activeSteps
        /\ chrome' = p.chrome
        /\ fields' = p.fields
        /\ saved' = IF p.item = item THEN saved ELSE p.saved
        /\ last' = p.last
        /\ sub' = p.sub
        /\ UNCHANGED <<medium, now, copy, written>>

\* The storage quota is used up by other pages of the origin
StorageFills ==
    /\ medium = "ok"
    /\ medium' = "full"
    /\ UNCHANGED <<state, localStorageAvailable, item, now, activeSteps, chrome, fields,
                   copy, sub, saved, written, last>>

\* The user types into the notes view
NotesInput == InputAt({4})

NextSubmit ==
    \/ ToggleConsent
    \/ SubmitClick
    \/ Respond
    \/ BackoffElapsed
    \/ HoursPass
    \/ ReloadPage
    \/ NavigateForward
    \/ NavigateBackward
    \/ EditStep
    \/ NotesInput
    \/ StorageFills

SpecSubmit == InitSubmit /\ [][NextSubmit]_vars

-----------------------------------------------------------------------------
(* The page session on the documents view: files are chosen, read and      *)
(* removed, the user navigates, and the attachments of a submission are    *)
(* collected.                                                               *)

\* The files a user can choose: images and PDFs at and just above their
\* size limit, an image of no bytes, a file of another type.
Files ==
    {[name |-> "doc", type |-> "image/png", size |-> sz] :
        sz \in {0, MAX_SIZE_IMAGE + 1}}
    \cup {[name |-> "doc", type |-> "image/jpeg", size |-> MAX_SIZE_IMAGE]}
    \cup {[name |-> "doc", type |-> "application/pdf", size |-> sz] :
              sz \in {MAX_SIZE_PDF, MAX_SIZE_PDF + 1}}
    \cup {[name |-> "doc", type |-> "text/plain", size |-> 0]}

\* Attachments passed to submitPreEncoded by a caller: raw base64, data
\* URLs with and without payload, without MIME type and with a MIME
\* parameter.
EncodedFiles ==
    {[data |-> Text(u), fileName |-> Str("doc"), mimeType |-> Str("image/png")] :
        u \in {<<"AAAA">>, <<>>,
               <<"data:", "image/png", ";base64,", "AAAA">>,
               <<"data:", "image/png", ";base64,">>,
               <<"data:", ";base64,", "AAAA">>,
               <<"data:", "text/plain", ";", "charset=utf-8", ";base64,",
                 "AAAA">>}}

InitDocs ==
    \E m \in {"ok", "full"} :
        LET p == PageReady(SavedRecord, m, 0, "load")
        IN  /\ medium = m
            /\ now = 0
            /\ state = p.state
            /\ localStorageAvailable = p.localStorageAvailable
            /\ item = p.item
            /\ activeSteps = p.activeSteps
            /\ chrome = p.chrome
            /\ fields = p.fields
            /\ saved = p.saved
            /\ last = p.last
            /\ written = Null
            /\ copy = NoCopy
            /\ sub = p.sub

\* The ghost of the last action dispatched on a zone
Dispatched(w, target, action) ==
    [w EXCEPT !.fields[3][target].dispatched = action]

\* A file is chosen or dropped on an upload zone of the visible view
ChooseFileIn(max) ==
    \E target \in {"fronte", "retro"}, file \in Files :
        LET w == Dispatched(handleFile(World, file, target), target,
                            IF validateFile(file).valid THEN file
                            ELSE fields[3][target].dispatched)
        IN  /\ 3 \in activeSteps
            /\ Called(max)
            /\ Commit(w)
            /\ last' = Op("chooseFile", Undefined, target, file, w)
            /\ UNCHANGED <<medium, copy, written>>

ChooseFile == ChooseFileIn(MaxEvents)

\* A FileReader finishes
FileLoaded ==
    \E target \in {"fronte", "retro"} :
        \E i \in 1 .. Len(fields[3][target].reading) :
            LET w == onFileLoad(World, target, i)
            IN  /\ Commit(w)
                /\ last' = Op("fileLoad", Undefined, target,
                              fields[3][target].reading[i], w)
                /\ UNCHANGED <<medium, now, copy, written>>

\* A FileReader fails
FileReadFails ==
    \E target \in {"fronte", "retro"} :
        \E i \in 1 .. Len(fields[3][target].reading) :
            LET w == onFileError(World, target, i)
            IN  /\ Commit(w)
                /\ last' = Op("fileError", Undefined, target,
                              fields[3][target].reading[i], w)
                /\ UNCHANGED <<medium, now, copy, written>>

\* A click on the remove button of a preview
RemoveFile ==
    \E target \in {"fronte", "retro"} :
        LET w == Dispatched(removeFile(World, target), target, Str("removed"))
        IN  /\ 3 \in activeSteps
            /\ fields[3][target].hasFile
            /\ Called(MaxEvents)
            /\ Commit(w)
            /\ last' = Op("removeFile", Undefined, target, Undefined, w)
            /\ UNCHANGED <<medium, copy, written>>

\* handleSubmit collects the attachments and submitPreEncoded prepares
\* them: last.value holds what was collected and what goes out.
CollectAttachments ==
    LET files == getFilesFromState(World)
    IN  /\ last' = Op("collect", Undefined, "",
                      [files |-> files, out |-> processedFiles(files)], World)
        /\ UNCHANGED <<state, localStorageAvailable, item, medium, now,
                       activeSteps, chrome, fields, copy, sub, saved, written>>

\* A caller passes one attachment to FormSubmission.submitPreEncoded on a
\* newly loaded page
SubmitPreEncoded ==
    \E file \in EncodedFiles :
        /\ last.op = "load"
        /\ last' = Op("submitPreEncoded", Undefined, "",
                      [files |-> <<file>>, out |-> processedFiles(<<file>>)],
                      World)
        /\ UNCHANGED <<state, localStorageAvailable, item, medium, now,
                       activeSteps, chrome, fields, copy, sub, saved, written>>



NextDocs ==
    \/ ChooseFile
    \/ FileLoaded
    \/ FileReadFails
    \/ RemoveFile
    \/ CollectAttachments
    \/ SubmitPreEncoded
    \/ NavigateForward
    \/ NavigateBackward

SpecDocs == InitDocs /\ [][NextDocs]_vars

-----------------------------------------------------------------------------
(* The expenses of the property step: a page loads a record whose step-2    *)
(* data holds any combination of expense values, the user edits an expense  *)
(* control and the review view is populated.                                *)

\* The amount the spec's example gives to each expense
ExampleAmount(c) ==
    CASE c = "spese-condominio" -> 100
      [] c = "imu" -> 300
      [] c = "tari" -> 200
      [] c = "utenze" -> 50

\* Values of an expense in a stored record: absent (Undefined), the
\* example amount as the control's text and as a number, a text that is
\* no number.
StoredExpenses(c) ==
    {Undefined, Text(Digits(ExampleAmount(c))), Num(ExampleAmount(c)),
     Text(<<"a">>)}

\* What the user types into an expense control
TypedExpenses(c) ==
    {Str(""), Text(<<"0">>), Text(<<"7">>), Text(Digits(ExampleAmount(c)))}

ExpenseRecords ==
    {JSONstringify([currentStep |-> Num(2),
                    formData |-> [defaultState.formData EXCEPT
                                     !["step2"] = e],
                    totalSteps |-> Num(7),
                    lastUpdated |-> ISOString(-1)]) :
        e \in {f \in [ExpenseControls ->
                         UNION {StoredExpenses(c) : c \in ExpenseControls}] :
                    \A c \in ExpenseControls : f[c] \in StoredExpenses(c)}}

InitTotal ==
    \E it \in ExpenseRecords, m \in {"ok", "full"} :
        LET p == PageReady(it, m, 0, "load")
        IN  /\ medium = m
            /\ now = 0
            /\ state = p.state
            /\ localStorageAvailable = p.localStorageAvailable
            /\ item = p.item
            /\ activeSteps = p.activeSteps
            /\ chrome = p.chrome
            /\ fields = p.fields
            /\ saved = p.saved
            /\ last = p.last
            /\ written = Null
            /\ copy = NoCopy
            /\ sub = p.sub

\* An input event on an expense control: the listener of StepFields on the
\* control runs before the delegated handler on the document.
ExpenseInput ==
    \E c \in ExpenseControls :
        \E v \in TypedExpenses(c) :
            LET w0 == [World EXCEPT !.fields[2][c] = v]
                w == onFieldChange(calculateAnnualTotal(w0), 2, c)
            IN  /\ 2 \in activeSteps
                /\ Called(MaxTotalEdits)
                /\ Commit(w)
                /\ last' = Op("input", Num(2), c, v, w)
                /\ UNCHANGED <<medium, copy, written>>

\* StepReview.populate: last.value holds the total it shows
Populate ==
    /\ last.op # "populate"
    /\ last' = Op("populate", Undefined, "",
                  calculateTotal(getStepData(World, Num(2)).value), World)
    /\ UNCHANGED <<state, localStorageAvailable, item, medium, now,
                   activeSteps, chrome, fields, copy, sub, saved, written>>

NextTotal ==
    \/ ExpenseInput
    \/ Populate

SpecTotal == InitTotal /\ [][NextTotal]_vars

-----------------------------------------------------------------------------
(* Page loads with a lockout marker in storage, as the clock advances.     *)

\* What can be found under SUBMISSION_KEY: nothing, timestamps written by
\* markSubmitted at hour 0 and at hour 1, an empty text and a text that is
\* no date.
Markers == {Null, ISOString(0), ISOString(1), Str(""), Str("garbage")}

InitLockout ==
    \E mk \in Markers, m \in Mediums :
        LET p == PageReadyWith(Null, m, 0, "load", FreshPrivacy(mk, 0, FALSE))
        IN  /\ medium = m
            /\ now = 0
            /\ state = p.state
            /\ localStorageAvailable = p.localStorageAvailable
            /\ item = p.item
            /\ activeSteps = p.activeSteps
            /\ chrome = p.chrome
            /\ fields = p.fields
            /\ saved = p.saved
            /\ last = [p.last EXCEPT !.step = Num(0), !.field = m]
            /\ written = Null
            /\ copy = NoCopy
            /\ sub = p.sub

\* An hour of wall-clock time passes
ClockTick ==
    /\ sub.hours < MaxClock
    /\ sub' = [sub EXCEPT !.hours = @ + 1]
    /\ UNCHANGED <<state, localStorageAvailable, item, medium, now,
                   activeSteps, chrome, fields, copy, saved, written, last>>

\* The page is loaded again: StepPrivacy.init consults
\* checkDuplicatePrevention.  last tells the hour and the medium of the load.
LockoutLoad ==
    LET p == PageReadyWith(item, medium, now, "reload",
                           FreshPrivacy(sub.marker, sub.hours, FALSE))
    IN  /\ state' = p.state
        /\ localStorageAvailable' = p.localStorageAvailable
        /\ item' = p.item
        /\ activeSteps' = p.activeSteps
        /\ chrome' = p.chrome
        /\ fields' = p.fields
        /\ saved' = IF p.item = item THEN saved ELSE p.saved
        /\ last' = [p.last EXCEPT !.step = Num(sub.hours), !.field = medium]
        /\ sub' = p.sub
        /\ UNCHANGED <<medium, now, copy, written>>

NextLockout ==
    \/ ClockTick
    \/ LockoutLoad
    \/ MediumChange

SpecLockout == InitLockout /\ [][NextLockout]_vars

-----------------------------------------------------------------------------
(* Sequences of setFieldValue calls on a state that starts as the default.   *)

InitFields == InitWith({Null, [text |-> "garbage"]})

WriteField == SetFieldValueIn(MaxWrites, FieldNames)

NextFields ==
    \/ WriteField
    \/ MediumChange

SpecFields == InitFields /\ [][NextFields]_vars

-----------------------------------------------------------------------------
(* A caller that keeps and changes an object an accessor returned: the       *)
(* model follows one such object per page load.                              *)

\* What the object held by the caller contains now
CopyContent ==
    IF copy.ref = "state" THEN state
    ELSE IF copy.ref = "step" THEN Get(state.formData, copy.key)
    ELSE copy.value

\* The caller's assignments to the object it holds
ChangedCopy(obj, key) ==
    IF key = ""
    THEN Put(Put(obj, "currentStep", Num(5)),
             "formData", Put(obj.formData, "step1", [nome |-> Str("changed")]))
    ELSE Put(obj, "nome", Str("changed"))

GetState ==
    /\ copy = NoCopy
    /\ copy' = getState(World)
    /\ UNCHANGED <<state, localStorageAvailable, item, medium, now, activeSteps, chrome,
                   fields, sub, saved, written, last>>

GetStepData ==
    \E i \in DataStepArgs :
        /\ copy = NoCopy
        /\ copy' = [getStepData(World, i) EXCEPT !.key = StepKey(i)]
        /\ UNCHANGED <<state, localStorageAvailable, item, medium, now,
                       activeSteps, chrome, fields, sub, saved, written, last>>

MutateCopy ==
    /\ copy.ref # "none"
    /\ last' = Op("mutateCopy", Undefined, "", Undefined, World)
    /\ IF copy.ref = "new"
       THEN /\ copy' = [copy EXCEPT !.value = ChangedCopy(copy.value, copy.key)]
            /\ state' = state
       ELSE /\ copy' = copy
            /\ state' = IF copy.ref = "state" THEN ChangedCopy(state, "")
                        ELSE Put(state, "formData",
                                 Put(state.formData, copy.key,
                                     ChangedCopy(state.formData[copy.key],
                                                 copy.key)))
    /\ UNCHANGED <<localStorageAvailable, item, medium, now, activeSteps, chrome, fields,
                   sub, saved, written>>

\* What a caller that keeps its argument passes to setStepData as data
CallerData ==
    {[telefono |-> Str("333")], Undefined, Num(5), Str("Rossi"), Bool(TRUE)}

\* setStepData called by a caller that keeps the object it passed
SetStepDataKept ==
    \E i \in DataStepArgs, d \in CallerData :
        LET w == setStepData(World, i, d)
        IN  /\ copy = NoCopy
            /\ Called(MaxCopyCalls)
            /\ Commit(w)
            /\ written' = IF w.state.formData = state.formData THEN written
                          ELSE Null
            /\ last' = Op("setStepData", i, "", d, w)
            /\ copy' = IF ~IsObject(d) THEN NoCopy
                       ELSE [ref |-> IF StoredData(d).ref = "new" THEN "new"
                                     ELSE "step",
                             key |-> StepKey(i), value |-> d]
            /\ medium' = medium

InitCopy == InitWith({Null, SavedRecord})

NextCopy ==
    \/ GetState
    \/ GetStepData
    \/ MutateCopy
    \/ SetFieldValueIn(MaxCopyCalls, {"nome"})
    \/ SetStepDataIn(MaxCopyCalls)
    \/ SetStepDataKept
    \/ SetCurrentStepIn(MaxCopyCalls)
    \/ ClearStateIn(MaxCopyCalls)

SpecCopy == InitCopy /\ [][NextCopy]_vars

-----------------------------------------------------------------------------
(* Submissions of a form whose address components are present, empty or   *)
(* were never filled in.                                                    *)

\* A component of an address in the form data: a text, the empty text, or
\* no entry at all (Undefined)
ComponentValues(piece) == {Text(<<piece>>), Text(<<>>), Undefined}

\* The data of a step holding an address with the given street, house
\* number, postal code, town and province
AddressData(suffix, via, civico, cap, citta, provincia) ==
    LET all == [n \in {"via-" \o suffix, "civico-" \o suffix,
                       "cap-" \o suffix, "citta-" \o suffix,
                       "provincia-" \o suffix} |->
                   CASE n = "via-" \o suffix -> via
                     [] n = "civico-" \o suffix -> civico
                     [] n = "cap-" \o suffix -> cap
                     [] n = "citta-" \o suffix -> citta
                     [] OTHER -> provincia]
    IN  [n \in {m \in DOMAIN all : all[m] # Undefined} |-> all[n]]

AddressRecords ==
    {JSONstringify([currentStep |-> Num(6),
                    formData |-> [defaultState.formData EXCEPT
                                     !["step1"] = s1, !["step2"] = s2],
                    totalSteps |-> Num(7),
                    lastUpdated |-> ISOString(-1)]) :
        s1 \in {AddressData("residenza", Text(<<"Via Roma">>), civico, cap,
                            citta, provincia) :
                    civico \in ComponentValues("10"),
                    cap \in ComponentValues("00100"),
                    citta \in ComponentValues("Roma"),
                    provincia \in ComponentValues("RM")},
        s2 \in {AddressData("immobile", Text(<<"Via Po">>), v, v, v, v) :
                    v \in {Text(<<"1">>), Text(<<>>), Undefined}}
                 \cup {EmptyObject}}

InitFlatten ==
    \E it \in AddressRecords :
        LET p == PageReady(it, "ok", 0, "load")
        IN  /\ medium = "ok"
            /\ now = 0
            /\ state = p.state
            /\ localStorageAvailable = p.localStorageAvailable
            /\ item = p.item
            /\ activeSteps = p.activeSteps
            /\ chrome = p.chrome
            /\ fields = p.fields
            /\ saved = p.saved
            /\ last = p.last
            /\ written = Null
            /\ copy = NoCopy
            /\ sub = p.sub

\* handleSubmit flattens the form data of the state: last.value holds the
\* flat record.
Flatten ==
    /\ last.op # "flatten"
    /\ last' = Op("flatten", Undefined, "",
                  flattenFormData(getState(World).value.formData), World)
    /\ UNCHANGED <<state, localStorageAvailable, item, medium, now,
                   activeSteps, chrome, fields, copy, sub, saved, written>>

NextFlatten ==
    \/ Flatten

SpecFlatten == InitFlatten /\ [][NextFlatten]_vars

-----------------------------------------------------------------------------
(* CodiceFiscale (src/unnamed/part_000): the validation of the fiscal-code  *)
(* input on blur and when the personal data change.  A fiscal code is one   *)
(* of a few texts; what the length test, CF_FORMAT_REGEX, validateChecksum  *)
(* and crossValidate answer for each of them is given below.                *)

\* Fiscal codes the user types: none, too short, 16 characters of the wrong
\* format, a wrong check character, and the codes of Rossi and of Verdi
CfRossi == "RSSMRA80A01H501U"
CfVerdi == "VRDLGU80A01H501Y"
CfValues ==
    {"", "RSSMRA", "1234567890123456", "RSSMRA80A01H501A", CfRossi, CfVerdi}
CfLength16(cf) == cf \notin {"", "RSSMRA"}
CF_FORMAT_REGEX_test(cf) == cf \in {"RSSMRA80A01H501A", CfRossi, CfVerdi}
validateChecksum(cf) == cf \in {CfRossi, CfVerdi}
crossValidate(cf, nome) ==
    \/ cf = CfRossi /\ nome = Str("Rossi")
    \/ cf = CfVerdi /\ nome = Str("Verdi")

\* Whether CodiceFiscale.validateField reaches its warning branch
WarningBranch(field, nome) ==
    /\ field.value # "" /\ CfLength16(field.value)
    /\ CF_FORMAT_REGEX_test(field.value) /\ validateChecksum(field.value)
    /\ ~Falsy(nome) /\ field.personal
    /\ ~crossValidate(field.value, nome)

\* CodiceFiscale.validateField that marks the field invalid with the warning
CodiceFiscale_validateField_Blocking(field, nome) ==
    LET cf == field.value
        invalid(message) ==
            showError([field EXCEPT !.customValidity = message], message)
    IN  IF cf = "" /\ field.required THEN invalid("Questo campo e obbligatorio")
        ELSE IF cf = "" THEN clearError(field)
        ELSE IF ~CfLength16(cf) THEN invalid("Deve avere 16 caratteri")
        ELSE IF ~CF_FORMAT_REGEX_test(cf) THEN invalid("Formato non corretto")
        ELSE IF ~validateChecksum(cf)
        THEN invalid("Carattere di controllo non valido")
        ELSE IF ~Falsy(nome) /\ field.personal /\ ~crossValidate(cf, nome)
        THEN [invalid("Il Codice Fiscale non corrisponde")
                 EXCEPT !.warningEl = TRUE]
        ELSE [clearError(field) EXCEPT !.warningEl = FALSE]

CodiceFiscale_validateField(field, nome) ==
    LET cf == field.value
        invalid(message) ==
            showError([field EXCEPT !.customValidity = message], message)
    IN  IF cf = "" /\ field.required THEN invalid("Questo campo e obbligatorio")
        ELSE IF cf = "" THEN clearError(field)
        ELSE IF ~CfLength16(cf) THEN invalid("Deve avere 16 caratteri")
        ELSE IF ~CF_FORMAT_REGEX_test(cf) THEN invalid("Formato non corretto")
        ELSE IF ~validateChecksum(cf)
        THEN invalid("Carattere di controllo non valido")
        ELSE IF ~Falsy(nome) /\ field.personal /\ ~crossValidate(cf, nome)
        THEN [field EXCEPT !.warningEl = TRUE]
        ELSE [clearError(field) EXCEPT !.warningEl = FALSE]

\* a record saveState wrote while the user was on the personal-data step
Step1Record ==
    JSONstringify([currentStep |-> Num(1),
                   formData |-> [defaultState.formData EXCEPT
                                    !["step1"] = [nome |-> Str("Rossi")]],
                   totalSteps |-> Num(7),
                   lastUpdated |-> ISOString(-1)])

InitFiscal ==
    \E required \in BOOLEAN, personal \in BOOLEAN, checked \in BOOLEAN :
        LET p == PageReadyWith(Step1Record, "ok", 0, "load",
                               FreshPrivacy(Null, 0, checked))
        IN  /\ medium = "ok"
            /\ now = 0
            /\ state = p.state
            /\ localStorageAvailable = p.localStorageAvailable
            /\ item = p.item
            /\ activeSteps = p.activeSteps
            /\ chrome = p.chrome
            /\ fields = [p.fields EXCEPT ![1] =
                             Put(@, "codice-fiscale",
                                 CfField("", required, personal))]
            /\ saved = p.saved
            /\ last = p.last
            /\ written = Null
            /\ copy = NoCopy
            /\ sub = p.sub

\* The field the blur or change handlers leave behind; last.value tells the
\* error state of the input just before CodiceFiscale.validateField ran and
\* whether that call reached its warning branch.
ErrorState(field) ==
    [customValidity |-> field.customValidity, ariaInvalid |-> field.ariaInvalid,
     errorEl |-> field.errorEl]

\* The user types a fiscal code: the input listener of CodiceFiscale (upper
\* case) and the delegated onFieldChange
CfInput ==
    \E v \in CfValues :
        LET w0 == [World EXCEPT !.fields[1]["codice-fiscale"].value = v]
            w == setFieldValue(w0, Num(1), "codice-fiscale", Str(v))
        IN  /\ 1 \in activeSteps
            /\ Called(MaxEvents)
            /\ Commit(w)
            /\ last' = Op("cfInput", Num(1), "codice-fiscale", Str(v), w)
            /\ UNCHANGED <<medium, copy, written>>

\* The fiscal-code input loses the focus: the capturing blur listener of
\* FormValidation, then the blur listener of CodiceFiscale
CfBlur ==
    LET first == validateField(fields[1]["codice-fiscale"]).field
        nome == fields[1]["nome"]
        w == [World EXCEPT !.fields[1]["codice-fiscale"] =
                  CodiceFiscale_validateField(first, nome)]
    IN  /\ 1 \in activeSteps
        /\ Commit(w)
        /\ last' = Op("cfBlur", Num(1), "codice-fiscale",
                      [before |-> ErrorState(first),
                       raised |-> WarningBranch(first, nome)], w)
        /\ UNCHANGED <<medium, now, copy, written>>

\* The user changes nome: the delegated onFieldChange, then the change
\* listener of CodiceFiscale, which validates a fiscal code that is not
\* empty
NomeChange ==
    \E v \in ControlInputs("nome") \cup {Str("Verdi")} :
        LET w0 == onFieldChange([World EXCEPT !.fields[1]["nome"] = v], 1, "nome")
            field == fields[1]["codice-fiscale"]
            again == field.value # ""
            w == IF again
                 THEN [w0 EXCEPT !.fields[1]["codice-fiscale"] =
                           CodiceFiscale_validateField(field, v)]
                 ELSE w0
        IN  /\ 1 \in activeSteps
            /\ Called(MaxEvents)
            /\ Commit(w)
            /\ last' = Op("nomeChange", Num(1), "nome",
                          [before |-> ErrorState(field),
                           raised |-> again /\ WarningBranch(field, v)], w)
            /\ UNCHANGED <<medium, copy, written>>

NextFiscal ==
    \/ CfInput
    \/ CfBlur
    \/ NomeChange
    \/ NavigateForward
    \/ NavigateBackward

SpecFiscal == InitFiscal /\ [][NextFiscal]_vars

-----------------------------------------------------------------------------
(* The status ticker of a submission: the privacy view with the interval    *)
(* timer of startLoadingMessages firing between the events of a submission. *)

InitTicker ==
    LET p == PageReady(Step6Record, "ok", 0, "load")
    IN  /\ medium = "ok"
        /\ now = 0
        /\ state = p.state
        /\ localStorageAvailable = p.localStorageAvailable
        /\ item = p.item
        /\ activeSteps = p.activeSteps
        /\ chrome = p.chrome
        /\ fields = p.fields
        /\ saved = p.saved
        /\ last = p.last
        /\ written = Null
        /\ copy = NoCopy
        /\ sub = p.sub

\* Three seconds have passed for an active interval timer
LoadingInterval ==
    \E i \in 1 .. Len(sub.tickers) :
        /\ sub.tickers[i].timer
        /\ sub' = onLoadingInterval(sub, i)
        /\ last' = Op("tick", sub.tickers[i].id, "", Undefined, World)
        /\ UNCHANGED <<state, localStorageAvailable, item, medium, now,
                       activeSteps, chrome, fields, copy, saved, written>>

NextTicker ==
    \/ ToggleConsent
    \/ SubmitClick
    \/ Respond
    \/ BackoffElapsed
    \/ LoadingInterval

SpecTicker == InitTicker /\ [][NextTicker]_vars

-----------------------------------------------------------------------------
(* Properties *)

InRange(v) == IsInteger(v) /\ v.x2 \div 2 \in StepViews
Mutations == {"setFieldValue", "setStepData", "setCurrentStep"}

\* C1: after any sequence of setFieldValue calls on the default state, under
\* a medium that serves, refuses or blocks the writes, getStepData(s) is, for
\* every step s in 0..6, the map of the fields written to s, each with the
\* value written to it last.
C1_LastWriteWins ==
    written # Null =>
        \A s \in StepViews :
            getStepData(World, Num(s)).value = written[StepKey(Num(s))]

\* C1 witness: three writes, to the same field of two steps, none of which
\* reached the medium.
C1_Witness ==
    /\ written # Null
    /\ now = 3
    /\ last.op = "setFieldValue" /\ last.step = Num(0)
    /\ written["step0"] = [nome |-> Bool(TRUE)]
    /\ written["step1"] = [nome |-> Str("Rossi")]
    /\ "step7" \notin DOMAIN written
    /\ item = Null
    /\ ~localStorageAvailable

\* C2: an object returned by getState() or getStepData(i) is the caller's
\* own: changing it leaves the module's state as it was, and a later
\* setFieldValue, setStepData, setCurrentStep or clearState leaves the
\* object's content as it was.
C2_SnapshotIsolation ==
    [][/\ last'.op = "mutateCopy" => state' = state /\ item' = item
       /\ (last'.op \in Mutations \cup {"clearState"} /\ now' # now
              /\ copy.ref # "none")
            => CopyContent' = CopyContent]_vars

\* C2 witness: a copy of the whole state was changed by its holder, and the
\* module then changed its own state by setFieldValue.
C2_Witness ==
    /\ copy.ref = "new" /\ copy.key = ""
    /\ copy.value.currentStep = Num(5)
    /\ last.op = "setFieldValue"
    /\ copy.value.formData # state.formData

\* C3: in every reachable state of a page session currentStep is an integer
\* in 0..6.
C3_CurrentStepInRange == InRange(getCurrentStep(World))

\* C4: setCurrentStep(n) changes nothing and persists nothing unless n is an
\* integer in 0..6; for such n it sets currentStep to n and calls saveState,
\* whose record is the new state when the write succeeds.
C4_SetCurrentStepContract ==
    [][(last'.op = "setCurrentStep" /\ now' # now) =>
          IF InRange(last'.step)
          THEN /\ Get(state', "currentStep") = last'.step
               /\ last'.saveRet # Undefined
               /\ last'.saveRet = Bool(TRUE) => item' = JSONstringify(state')
          ELSE state' = state /\ item' = item]_vars

\* C5: in every reachable state formData has exactly the keys step0..step6.
C5_ExactlySevenStepKeys == DOMAIN state.formData = StepKeys

\* C6: after setFieldValue, setStepData, setCurrentStep or saveState, the
\* saveState the call made returned true exactly when the record in storage
\* is the one it wrote, and that record then deserialises to the in-memory
\* state (currentStep, formData and lastUpdated included).
C6_MutationsArePersisted ==
    (last.op \in Mutations \cup {"saveState"} /\ last.saveRet # Undefined) =>
        /\ last.saveRet = Bool(TRUE) <=> item = JSONstringify(state)
        /\ last.saveRet = Bool(TRUE) =>
               /\ item # Null
               /\ ~JSONparseThrows(item)
               /\ JSONparse(item) = state
               /\ JSONparse(item).lastUpdated = ISOString(now - 1)

\* C7: when the write of a mutation fails or the medium is unavailable, the
\* mutation (for setCurrentStep: one to a step in 0..6) is still applied in
\* memory, no exception reaches the caller, and getStepData / getCurrentStep /
\* getState return the new values.
C7_FailedWriteKeepsMemory ==
    (last.op \in Mutations /\ last.saveRet = Bool(FALSE)) =>
        /\ ~last.threw
        /\ last.op = "setFieldValue" =>
              /\ last.field \in DOMAIN getStepData(World, last.step).value
              /\ getStepData(World, last.step).value[last.field] = last.value
              /\ getState(World).value.formData[StepKey(last.step)][last.field]
                    = last.value
        /\ last.op = "setStepData" =>
              getStepData(World, last.step).value = last.value
        /\ (last.op = "setCurrentStep" /\ InRange(last.step)) =>
              /\ getCurrentStep(World) = last.step
              /\ getState(World).value.currentStep = last.step

\* C7 witness: setFieldValue ran into a full medium, which also cleared the
\* availability flag, and nothing was ever stored.
C7_Witness ==
    /\ last.op = "setFieldValue" /\ last.saveRet = Bool(FALSE)
    /\ medium = "full"
    /\ ~localStorageAvailable
    /\ item = Null
    /\ last.field \in DOMAIN getStepData(World, last.step).value

\* C8: when the page is loaded again over a record that saveState wrote and
\* the medium is available, loadState on the new default state returns true
\* and formData and currentStep are those of the state that was saved.
C8_RoundTrip ==
    (last.op = "reload" /\ saved # Null /\ localStorageAvailable) =>
        /\ last.ret = Bool(TRUE)
        /\ state.formData = saved.formData
        /\ Get(state, "currentStep") = Get(saved, "currentStep")

\* A record that is not JSON or is no object with a formData field
IsCorruptRecord(rec) ==
    /\ rec # Null
    /\ \/ JSONparseThrows(rec)
       \/ ~IsObject(JSONparse(rec))
       \/ "formData" \notin DOMAIN JSONparse(rec)

\* C9 as claimed: after the loadState of a page load that found a corrupt
\* record, loadState returned false, the state is the default one and the
\* record is gone from storage.
C9_CorruptRecordRemoved ==
    (last.op \in {"load", "reload"} /\ IsCorruptRecord(last.value)) =>
        /\ last.ret = Bool(FALSE)
        /\ state = defaultState
        /\ item = Null

\* C9 amended: ... loadState returned false and the state is the default
\* one; the record is gone when the startup probe found the medium
\* available, and is left as it was when the probe failed.
C9_CorruptRecordRejected ==
    (last.op \in {"load", "reload"} /\ IsCorruptRecord(last.value)) =>
        /\ last.ret = Bool(FALSE)
        /\ state = defaultState
        /\ item = IF localStorageAvailable THEN Null ELSE last.value

\* C9 witness: a page load found an object without formData and removed it.
C9_Witness ==
    /\ last.op = "load"
    /\ last.value = JSONstringify([currentStep |-> Num(2)])
    /\ localStorageAvailable
    /\ item = Null
    /\ state = defaultState

\* C10: a click on "next" at a step k in 1..5 whose gate fails changes
\* neither currentStep nor the visible step nor the stored record; when the
\* gate passes the step becomes k+1.  From step 2 with the required control
\* empty the step stays 2; with it filled the step becomes 3.
C10_ValidationGate ==
    [][(/\ last'.op = "navigateForward"
        /\ now' # now
        /\ InRange(last'.step)
        /\ last'.step.x2 \div 2 \in 1 .. 5) =>
          /\ last'.step = Get(state, "currentStep")
          /\ IF last'.value = Bool(FALSE)
             THEN state' = state /\ activeSteps' = activeSteps /\ item' = item
             ELSE /\ Get(state', "currentStep") = JsAdd(last'.step, 1)
                  /\ activeSteps' = {last'.step.x2 \div 2 + 1}
          /\ last'.step = Num(2) =>
                (last'.value = Bool(FALSE)
                    <=> \E c \in Controls(2) \cap RequiredControls :
                            fields[2][c] = Str(""))]_vars

\* C10 witness: the user filled the required control of step 2 and the next
\* click moved to step 3.
C10_Witness ==
    /\ last.op = "navigateForward" /\ last.step = Num(2)
    /\ last.value = Bool(TRUE)
    /\ Get(state, "currentStep") = Num(3)
    /\ activeSteps = {3}
    /\ fields[2]["via-immobile"] = Str("Rossi")

\* C11: navigateForward at step 6 and navigateBackward at step 0 change
\* nothing; navigateForward at step 0 moves to step 1 without asking the step
\* gate; navigateBackward at a step k in 1..6 moves to k-1 whatever the
\* controls of step k hold.
C11_BoundaryTransitions ==
    [][/\ (/\ last'.op \in {"navigateForward", "navigateBackward"}
           /\ now' # now
           /\ last'.step = (IF last'.op = "navigateForward"
                            THEN Num(6) ELSE Num(0)))
            => /\ state' = state
               /\ activeSteps' = activeSteps
               /\ item' = item
               /\ last'.gate = Undefined
       /\ (last'.op = "navigateForward" /\ now' # now /\ last'.step = Num(0))
            => /\ last'.gate = Undefined
               /\ Get(state', "currentStep") = Num(1)
               /\ activeSteps' = {1}
       /\ (/\ last'.op = "navigateBackward"
           /\ now' # now
           /\ InRange(last'.step)
           /\ last'.step # Num(0))
            => /\ Get(state', "currentStep") = JsAdd(last'.step, -1)
               /\ activeSteps' = {last'.step.x2 \div 2 - 1}]_vars

\* C11 witness: "previous" was clicked at step 2 while its required control
\* was empty, and the page went back to step 1.
C11_Witness ==
    /\ last.op = "navigateBackward" /\ last.step = Num(2)
    /\ fields[2]["via-immobile"] = Str("")
    /\ Get(state, "currentStep") = Num(1)
    /\ activeSteps = {1}

\* A record that parses to an object holding form data
StructurallyValid(rec) ==
    /\ rec # Null
    /\ ~JSONparseThrows(rec)
    /\ IsObject(JSONparse(rec))
    /\ ~Falsy(Get(JSONparse(rec), "formData"))

\* The step the page is to show first, given the record found in storage and
\* whether storage was found available.
FirstStep(rec, available) ==
    IF /\ available
       /\ StructurallyValid(rec)
       /\ InRange(Get(JSONparse(rec), "currentStep"))
    THEN Get(JSONparse(rec), "currentStep")
    ELSE Num(0)

\* C13: after the page load, the one view shown is that of the persisted
\* currentStep when a structurally valid record was found, storage is
\* available and that step is one of 0..6, and is the view of step 0 in every
\* other case; currentStep equals the step shown.
C13_FirstStepOnLoad ==
    last.op = "load" =>
        LET step == FirstStep(last.value, localStorageAvailable)
        IN  /\ activeSteps = {step.x2 \div 2}
            /\ Get(state, "currentStep") = step

\* currentStep moved by one step, forward or backward
OneStep(from, to) == to = JsAdd(from, 1) \/ to = JsAdd(from, -1)

C14_AtMostOneInFlight ==
    [][/\ Len(sub'.flights) <= 1
       /\ sub'.flights # <<>> => sub'.hasSubmitted
       /\ (last'.op = "submit" /\ sub.flights # <<>>) => sub' = sub
       /\ (sub.hasSubmitted /\ ~sub'.hasSubmitted /\ last'.op # "reload")
            => /\ last'.op = "response"
               /\ sub'.done.outcome = "failure"
               /\ sub'.alerts = sub.alerts + 1]_vars

\* C14 witness: while a submission was pending the consent checkbox was
\* unticked and ticked again, which enabled the button, and a click on it
\* started no second submission.
C14_Witness ==
    /\ last.op = "submit" /\ last.value = Bool(TRUE)
    /\ sub.checked /\ ~sub.disabled
    /\ sub.hasSubmitted
    /\ Len(sub.flights) = 1
    /\ sub.started = 1

\* C15: a run of handleSubmit while the consent checkbox is not ticked
\* changes nothing (hasSubmitted, button, ticker, pending submissions, form
\* state and storage), and every pending submission was started with the
\* checkbox ticked.
C15_ConsentGate ==
    [][/\ (last'.op = "submit" /\ ~sub.checked)
            => /\ sub' = sub
               /\ state' = state
               /\ item' = item
               /\ activeSteps' = activeSteps
       /\ \A i \in 1 .. Len(sub'.flights) : sub'.flights[i].consent]_vars

\* C15 witness: handleSubmit ran with the checkbox unticked on a page that
\* had started no submission, and none is pending.
C15_Witness ==
    /\ last.op = "submit"
    /\ ~sub.checked
    /\ ~sub.hasSubmitted /\ sub.disabled /\ sub.loadingInterval = Null
    /\ sub.flights = <<>>
    /\ sub.started = 0

\* C16: once a submission has succeeded, the lockout timestamp of that
\* moment is in storage, the form state is the default one, the form's record
\* is gone from storage and the thank-you view has replaced the step views.
C16_SuccessEffects ==
    (last.op = "response" /\ sub.done.outcome = "success") =>
        /\ sub.marker = sub.succeededAt
        /\ state = defaultState
        /\ item = Null
        /\ sub.success /\ activeSteps = {}

\* C17: when the last attempt of a submission fails, hasSubmitted is cleared,
\* the button is enabled exactly if the consent checkbox is still ticked, an
\* alert is shown, form state and storage are left as they were; a run of
\* handleSubmit after that with the checkbox ticked starts a new submission.
C17_ExhaustedRetries ==
    [][/\ (last'.op = "response" /\ sub'.alerts # sub.alerts)
            => /\ sub'.done.outcome = "failure"
               /\ ~sub'.hasSubmitted
               /\ sub'.disabled = ~sub'.checked
               /\ sub'.alerts = sub.alerts + 1
               /\ sub'.flights = <<>>
               /\ state' = state
               /\ item' = item
               /\ activeSteps' = activeSteps
       /\ (/\ last'.op = "submit" /\ last' # last
           /\ sub.done.outcome = "failure"
           /\ ~sub.hasSubmitted
           /\ sub.checked)
            => /\ Len(sub'.flights) = 1
               /\ sub'.flights[1].attempt = 1
               /\ sub'.flights[1].phase = "request"
               /\ sub'.hasSubmitted
               /\ sub'.started = sub.started + 1]_vars

\* C17 witness: a submission failed for good, the alert was shown once, and
\* the next click started the page's second submission.
C17_Witness ==
    /\ last.op = "submit"
    /\ sub.done.outcome = "failure" /\ sub.done.attempt = 3
    /\ sub.alerts = 1
    /\ sub.started = 2
    /\ Len(sub.flights) = 1

\* The delays, in milliseconds, that precede attempt n of a submission
BackoffDelays(n) == [i \in 1 .. n - 1 |-> (2 ^ (i - 1)) * 1000]

\* C18: a submission makes at most 3 attempts; attempt n is preceded by
\* exactly the delays of 1 s, 2 s, ... 2^(n-2) s; a transport error, a
\* non-2xx status and a body with success false each fail the attempt; a
\* failed attempt before the third starts one delay of 2^(n-1) s, after which
\* the next attempt is made; the submission succeeds with the first attempt
\* that succeeds and fails with the third failure, without further delay.
C18_RetryWithBackoff ==
    [][/\ \A i \in 1 .. Len(sub'.flights) :
            LET f == sub'.flights[i]
            IN  /\ f.attempt \in 1 .. DefaultMaxAttempts
                /\ f.delays = BackoffDelays(IF f.phase = "request"
                                            THEN f.attempt ELSE f.attempt + 1)
                /\ f.phase = "backoff" => f.attempt < DefaultMaxAttempts
       /\ (last'.op = "response" /\ sub' # sub /\ sub.flights # <<>>)
            => LET f == sub.flights[1]
                   r == last'.value
                   accepted ==
                       r \in {HttpResponse(TRUE, JSONstringify([success |-> Bool(TRUE)])),
                              HttpResponse(TRUE, JSONstringify(EmptyObject))}
                   refused ==
                       \/ r = NetworkError
                       \/ r.transport = "done" /\ ~r.ok
                       \/ r = HttpResponse(TRUE, JSONstringify([success |-> Bool(FALSE)]))
               IN  /\ f.phase = "request"
                   /\ accepted =>
                         /\ sub'.flights = <<>>
                         /\ sub'.done = [outcome |-> "success",
                                         attempt |-> f.attempt,
                                         delays |-> BackoffDelays(f.attempt)]
                   /\ (refused /\ f.attempt < 3) =>
                         /\ sub'.done = sub.done
                         /\ sub'.flights =
                               <<[f EXCEPT !.phase = "backoff",
                                           !.delays = BackoffDelays(f.attempt + 1)]>>
                   /\ (refused /\ f.attempt = 3) =>
                         /\ sub'.flights = <<>>
                         /\ sub'.done = [outcome |-> "failure", attempt |-> 3,
                                         delays |-> <<1000, 2000>>]
       /\ (last'.op = "backoff" /\ sub' # sub /\ sub.flights # <<>>)
            => sub'.flights = <<[sub.flights[1] EXCEPT !.phase = "request",
                                                        !.attempt = @ + 1]>>]_vars

\* C18 witness: two attempts failed, the third succeeded, and the
\* submission succeeded after the delays of 1 s and 2 s.
C18_Witness ==
    /\ last.op = "response"
    /\ sub.done = [outcome |-> "success", attempt |-> 3,
                   delays |-> <<1000, 2000>>]
    /\ sub.success

\* The pending submissions whose request is outstanding
Outstanding(p) == {i \in 1 .. Len(p.flights) : p.flights[i].phase = "request"}

\* C19: at most one request is outstanding at any time, and a submission
\* issues its next request only when the previous one has failed and the
\* backoff timer started by that failure has fired.
C19_NoOverlappingRequests ==
    [][/\ Cardinality(Outstanding(sub')) <= 1
       /\ \A i \in 1 .. Len(sub'.flights) :
            (/\ i <= Len(sub.flights)
             /\ sub'.flights[i].attempt # sub.flights[i].attempt)
              => /\ Outstanding(sub) = {}
                 /\ sub.flights[i].phase = "backoff"
                 /\ Len(sub.flights[i].delays) = sub.flights[i].attempt
                 /\ sub'.flights[i].attempt = sub.flights[i].attempt + 1
                 /\ last'.op = "backoff"
       /\ (last'.op = "response" /\ sub' # sub /\ sub.flights # <<>>)
            => Outstanding(sub') = {}]_vars

\* C19 witness: the first request failed, its backoff timer fired, and the
\* second request is the only one outstanding.
C19_Witness ==
    /\ last.op = "backoff"
    /\ Len(sub.flights) = 1
    /\ sub.flights[1].attempt = 2
    /\ sub.flights[1].delays = <<1000>>
    /\ Outstanding(sub) = {1}

\* C20: a page load less than 24 hours after a submission succeeded shows
\* the thank-you view at once and attaches no listener to the checkbox or
\* the button, so that no submission can be started on that page.
C20_Lockout ==
    (/\ last.op = "reload"
     /\ sub.succeededAt # Null
     /\ sub.hours - DateParse(sub.succeededAt) < SUBMISSION_LOCKOUT_HOURS) =>
        /\ sub.success
        /\ ~sub.armed
        /\ activeSteps = {}
        /\ sub.flights = <<>>

\* C21: the page load locks (checkDuplicatePrevention returned true: the
\* thank-you view is shown and nothing is armed) exactly when a marker is
\* stored, storage can be read and less than 24 hours have passed since the
\* marker's time; with no marker, with a marker 24 hours old or older and
\* with unreadable storage it does not lock; the marker is left as it was.
C21_LockoutCheck ==
    [][last'.op \in {"load", "reload"} =>
          /\ sub'.success =
                (/\ last'.field # "blocked"
                 /\ ~Falsy(sub.marker)
                 /\ "iso" \in DOMAIN sub.marker
                 /\ last'.step.x2 \div 2 - sub.marker.iso < 24)
          /\ sub'.armed = ~sub'.success
          /\ sub'.marker = sub.marker]_vars

\* C21 witness: a page load exactly 24 hours after the marker's time did
\* not lock and left the expired marker in storage.
C21_Witness ==
    /\ last.op = "reload" /\ last.step = Num(24)
    /\ sub.marker = ISOString(0)
    /\ ~sub.success /\ sub.armed

\* C22: every attachment that goes out has lost its data-URL prefix: a
\* data of the form data:<mime>;base64,<payload> goes out as <payload>, for
\* any mime and any payload, the empty one included; any other data goes out
\* unchanged; preparing the outgoing files again changes nothing; no
\* outgoing data starts with "data:".
C22_PrefixNormalised ==
    last.op \in {"collect", "submitPreEncoded"} =>
        /\ \A i \in 1 .. Len(last.value.files) :
              LET u == last.value.files[i].data.url
                  out == last.value.out[i].data.url
                  marks == {k \in 2 .. Len(u) : u[k] = ";base64,"}
                  first == CHOOSE k \in marks : \A j \in marks : k <= j
              IN  /\ IF Len(u) > 0 /\ u[1] = "data:" /\ marks # {}
                     THEN out = SubSeq(u, first + 1, Len(u))
                     ELSE out = u
                  /\ out = <<>> \/ out[1] # "data:"
        /\ processedFiles(last.value.out) = last.value.out

\* C28: the attachments collected for a submission are, front slot first,
\* one entry with the data, name and type of each slot that holds a staged
\* file in the data of step 3 and none for the other slots; the slots with
\* an entry are the slots for which restoreUploads shows a preview.
C28_CollectAttachments ==
    last.op = "collect" =>
        LET step3 == Get(state.formData, "step3")
            staged(target) ==
                Get(step3, "documento-" \o target) \notin {Null, Undefined}
            entry(target) ==
                IF staged(target)
                THEN <<[data |-> step3["documento-" \o target],
                        fileName |-> step3["documento-" \o target \o "-filename"],
                        mimeType |-> step3["documento-" \o target \o "-type"]]>>
                ELSE <<>>
            previews == restoreUploads(World).fields[3]
        IN  /\ last.value.files = entry("fronte") \o entry("retro")
            /\ \A target \in {"fronte", "retro"} :
                  staged(target) = previews[target].hasFile

\* C29: a file whose read completes and is stored in the data of step 3 has
\* type image/jpeg, image/png or application/pdf and at most 5 MiB (images)
\* or 10 MiB (PDF); choosing any other file starts no read and changes
\* neither the form state, nor the stored record, nor the previews, nor the
\* visible step; "next" on the documents step moves to step 4 whether or
\* not a zone shows an error.
C29_FileValidation ==
    [][LET Accepted(file) ==
            \/ file.type \in {"image/jpeg", "image/png"}
                   /\ file.size <= 5 * 1024 * 1024
            \/ file.type = "application/pdf" /\ file.size <= 10 * 1024 * 1024
       IN  /\ (last'.op = "fileLoad" /\ now' = now) => Accepted(last'.value)
           /\ (last'.op = "chooseFile" /\ now' # now
                   /\ ~Accepted(last'.value)) =>
                 /\ state' = state
                 /\ item' = item
                 /\ activeSteps' = activeSteps
                 /\ \A target \in {"fronte", "retro"} :
                       /\ fields'[3][target].reading = fields[3][target].reading
                       /\ fields'[3][target].hasFile = fields[3][target].hasFile
                 /\ fields'[3][last'.field].error # ""
           /\ (last'.op = "navigateForward" /\ now' # now
                   /\ Get(state, "currentStep") = Num(3)) =>
                 /\ Get(state', "currentStep") = Num(4)
                 /\ activeSteps' = {4}]_vars

\* C29 witness: with a file staged in the front slot, a PNG of 5 MiB + 1
\* byte chosen for the same slot was rejected; the staged file is still
\* there and no read is pending.
C29_Witness ==
    /\ last.op = "chooseFile"
    /\ last.field = "fronte"
    /\ last.value.type = "image/png"
    /\ last.value.size = MAX_SIZE_IMAGE + 1
    /\ fields[3]["fronte"].error = "File troppo grande"
    /\ fields[3]["fronte"].hasFile
    /\ fields[3]["fronte"].reading = <<>>
    /\ Get(Get(state.formData, "step3"), "documento-fronte-size")
           = Num(MAX_SIZE_IMAGE)

\* C23: with each of spese-condominio, imu, tari and utenze counted as its
\* value when it is a non-negative integer (a number or a text of digits)
\* and as 0 when it is missing or no number, the total stored under
\* totale-spese-annuali and the total the review view shows both equal
\* 12 * spese-condominio + imu + tari + 12 * utenze; 100, 300, 200 and 50
\* give 2300.
C23_AnnualTotal ==
    LET step2 == Get(state.formData, "step2")
        Amount(name) ==
            LET v == Get(step2, name)
            IN  IF IsInteger(v) /\ v.x2 >= 0 THEN v.x2 \div 2
                ELSE IF ~IsObject(v) /\ v.t = "string" /\ "url" \in DOMAIN v
                        /\ v.url # <<>>
                        /\ \A i \in 1 .. Len(v.url) : IsDigit(v.url[i])
                THEN DigitsValue(v.url, Len(v.url))
                ELSE 0
        expected == 12 * Amount("spese-condominio") + Amount("imu")
                        + Amount("tari") + 12 * Amount("utenze")
    IN  /\ Get(step2, "totale-spese-annuali") = Num(expected)
        /\ last.op = "populate" => last.value = Num(expected)
        /\ (/\ Amount("spese-condominio") = 100 /\ Amount("imu") = 300
            /\ Amount("tari") = 200 /\ Amount("utenze") = 50)
               => expected = 2300

\* C23 witness: the record held 100, 300 and 200, the user typed 50 into
\* utenze, and the stored total and the review total are 2300.
C23_Witness ==
    /\ last.op = "populate"
    /\ last.value = Num(2300)
    /\ now = 1
    /\ fields[2]["utenze"] = Text(<<"5", "0">>)
    /\ Get(Get(state.formData, "step2"), "spese-condominio") = Num(100)
    /\ Get(Get(state.formData, "step2"), "imu") = Text(<<"3", "0", "0">>)
    /\ Get(Get(state.formData, "step2"), "totale-spese-annuali") = Num(2300)

\* C24: after clearState has returned the in-memory state is the default
\* state and no record is stored under STORAGE_KEY, so that a page loaded
\* next over a readable medium finds no session (loadState and
\* hasExistingSession return false).
C24_ClearStateRemovesRecord ==
    last.op = "clearState" =>
        /\ state = defaultState
        /\ item = Null
        /\ LET reloaded == FormStateInit(FreshWorld(item, "ok", now))
           IN  /\ reloaded.ret = Bool(FALSE)
               /\ ~hasExistingSession(reloaded)

\* C25: setStepData(i, data) with an object data makes getStepData(i) equal
\* to data (fields the step held before and data lacks are gone) and leaves
\* the data of every other step and currentStep as they were; a later change
\* of the object the caller passed leaves the state and the stored record as
\* they were; with null, undefined, a number, a text or a boolean as data
\* the state and the stored record are unchanged.
C25_SetStepData ==
    [][/\ (last'.op = "setStepData" /\ now' # now) =>
            LET key == StepKey(last'.step)
                data == last'.value
            IN  IF IsObject(data)
                THEN /\ getStepData([World EXCEPT !.state = state'],
                                    last'.step).value = data
                     /\ DOMAIN state'.formData \ {key}
                            = DOMAIN state.formData \ {key}
                     /\ \A k \in DOMAIN state.formData \ {key} :
                            state'.formData[k] = state.formData[k]
                     /\ Get(state', "currentStep") = Get(state, "currentStep")
                ELSE state' = state /\ item' = item
       /\ (last'.op = "mutateCopy" /\ last.op = "setStepData") =>
            state' = state /\ item' = item]_vars

\* C25 witness: step 1 held nome; setStepData(1, {telefono}) replaced it,
\* the caller then changed the object it had passed, and the step still
\* holds what was passed.
C25_Witness ==
    /\ last.op = "mutateCopy"
    /\ copy.key = "step1"
    /\ copy.value = [telefono |-> Str("333"), nome |-> Str("changed")]
    /\ state.formData["step1"] = [telefono |-> Str("333")]
    /\ item # Null /\ item.value.formData["step1"] = [telefono |-> Str("333")]

\* C26: once the availability flag is false nothing reads or writes the
\* medium; in particular StepPrivacy.init of a page whose probe failed does
\* not read the lockout marker, so that such a page never shows the locked
\* (thank-you) view whatever marker is stored.
C26_NoAccessOnceUnavailable ==
    (last.op \in {"load", "reload"} /\ ~localStorageAvailable) => ~sub.success

\* C27: with a non-empty street, the address flattenFormData assembles for
\* step 1 (indirizzoPersonale) and for step 2 (indirizzoImmobile) is made of
\* the non-empty ones of street, house number, postal code, town and
\* province, in this order, and of nothing derived from an empty or absent
\* one: no "undefined", no empty parentheses, no segment that is blank.
C27_AddressAssembly ==
    last.op = "flatten" =>
        \A a \in {<<"step1", "residenza", "indirizzoPersonale">>,
                  <<"step2", "immobile", "indirizzoImmobile">>} :
            LET step == state.formData[a[1]]
                value(n) == Get(step, n \o "-" \o a[2])
                present(n) == value(n) # Undefined /\ value(n).url # <<>>
                names == <<"via", "civico", "cap", "citta", "provincia">>
                glue == {" ", "(", ")", ", "}
                out == last.value[a[3]].url
                words == SelectSeq(out, LAMBDA x : x \notin glue)
                given == SelectSeq(names, present)
            IN  present("via") =>
                    /\ words = [i \in 1 .. Len(given) |-> value(given[i]).url[1]]
                    /\ \A i \in 1 .. Len(out) - 1 :
                          ~(out[i] = "(" /\ out[i + 1] = ")")
                    /\ \A i \in 1 .. Len(out) :
                          out[i] = " " =>
                              \/ i > 1 /\ out[i - 1] # ", "
                              \/ i < Len(out) /\ out[i + 1] # ", "

\* C30: when CodiceFiscale.validateField raises the cross-match warning it
\* leaves the input's custom validity, aria-invalid and error annotation as
\* they were; "next" on step 1 and a submission give the same result as
\* they would without the warning annotation.
C30_WarningNonBlocking ==
    [][LET field == fields[1]["codice-fiscale"]
           plain == [World EXCEPT !.fields[1]["codice-fiscale"].warningEl = FALSE]
           Same(a, b) ==
               /\ a.state = b.state
               /\ a.item = b.item
               /\ a.activeSteps = b.activeSteps
               /\ a.ret = b.ret
               /\ [a.fields[1]["codice-fiscale"] EXCEPT !.warningEl = FALSE]
                      = [b.fields[1]["codice-fiscale"] EXCEPT !.warningEl = FALSE]
       IN  /\ (last'.op \in {"cfBlur", "nomeChange"} /\ last'.value.raised) =>
                 /\ fields'[1]["codice-fiscale"].warningEl
                 /\ ErrorState(fields'[1]["codice-fiscale"]) = last'.value.before
           /\ Get(state, "currentStep") = Num(1) =>
                 Same(navigateForward(World), navigateForward(plain))
           /\ handleSubmit(World, sub).p = handleSubmit(plain, sub).p
           /\ (last'.op = "navigateForward" /\ now' # now
                   /\ Get(state, "currentStep") = Num(1)
                   /\ field.warningEl /\ fields[1]["nome"] # Str("")
                   /\ (field.required => field.value # "")) =>
                 Get(state', "currentStep") = Num(2)]_vars

\* C30 witness: the fiscal code of Verdi was typed under the name Rossi, the
\* blur raised the warning without any error state, and "next" moved to
\* step 2 with the warning still shown.
C30_Witness ==
    /\ last.op = "navigateForward"
    /\ Get(state, "currentStep") = Num(2)
    /\ fields[1]["nome"] = Str("Rossi")
    /\ fields[1]["codice-fiscale"].value = CfVerdi
    /\ fields[1]["codice-fiscale"].warningEl
    /\ fields[1]["codice-fiscale"].errorEl = ""
    /\ fields[1]["codice-fiscale"].customValidity = ""
    /\ ~fields[1]["codice-fiscale"].ariaInvalid

\* What C31 asks of the views, the in-memory step, the progress bar and the
\* display of the two buttons in the page w that showStep(Num(i)) leaves
ShownAs(w, i) ==
    /\ w.activeSteps = {i}
    /\ getCurrentStep(w) = Num(i)
    /\ w.chrome.progress.x14 * TOTAL_STEPS = (i + 1) * 100 * 14
    /\ (w.chrome.prevBtn = Str("none")) <=> (i = 0)
    /\ (w.chrome.nextBtn = Str("none")) <=> (i = 6)

\* C31 as stated: after showStep(i) for any i in 0..6, exactly one step view is
\* active and it is step i, currentStep is i and the stored record holds it,
\* the progress value is (i+1)/7 of 100, the previous button is hidden iff
\* i = 0, the next button is hidden iff i = 6, and the text of the next button
\* is the start label iff i = 0.
C31_ShowStep ==
    \A i \in StepViews :
        LET w == showStep(World, Num(i))
        IN  /\ ShownAs(w, i)
            /\ w.item # Null
            /\ ~JSONparseThrows(w.item)
            /\ Get(JSONparse(w.item), "currentStep") = Num(i)
            /\ (w.chrome.nextText = Str("Inizia")) <=> (i = 0)

\* C31 (amended): after showStep(i) for any i in 0..6, exactly one step view is
\* active and it is step i, currentStep is i, the progress value is (i+1)/7 of
\* 100, the previous button is hidden iff i = 0 and the next button is hidden
\* iff i = 6; the record is stored exactly when saveState reports success and
\* the stored record then holds currentStep i, otherwise storage is left as it
\* was; for i # 6 the text of the next button is the start label iff i = 0, and
\* for i = 6 the hidden button keeps the text it had.
C31_ShowStepEffects ==
    \A i \in StepViews :
        LET w == showStep(World, Num(i))
        IN  /\ ShownAs(w, i)
            /\ w.saveRet = Bool(TRUE) =>
                   /\ w.item = JSONstringify(w.state)
                   /\ Get(JSONparse(w.item), "currentStep") = Num(i)
            /\ w.saveRet # Bool(TRUE) => w.item = item
            /\ i # 6 => ((w.chrome.nextText = Str("Inizia")) <=> (i = 0))
            /\ i # 6 => w.chrome.nextText \in {Str("Inizia"), Str("Avanti")}
            /\ i = 6 => w.chrome.nextText = chrome.nextText

\* C31 witness: from the review step the edit button of step 2 was clicked;
\* step 2 alone is shown, it is the current and the stored step, the bar is
\* at 3/7 and both buttons are shown, the next one reading "Avanti".
C31_Witness ==
    /\ last.op = "editStep" /\ last.step = Num(2)
    /\ activeSteps = {2}
    /\ getCurrentStep(World) = Num(2)
    /\ item = JSONstringify(state)
    /\ chrome.progress = [t |-> "number", x14 |-> 600]
    /\ chrome.prevBtn = Str("") /\ chrome.nextBtn = Str("")
    /\ chrome.nextText = Str("Avanti")

\* The data staged for a slot in FormState: its four fields of step 3
Staged(target) ==
    [k \in {"", "-filename", "-size", "-type"} |->
        Get(Get(state.formData, "step3"), "documento-" \o target \o k)]

StagedFrom(file) ==
    [k \in {"", "-filename", "-size", "-type"} |->
        CASE k = "" -> readAsDataURL(file)
          [] k = "-filename" -> Str(file.name)
          [] k = "-size" -> Num(file.size)
          [] k = "-type" -> Str(file.type)]

\* C32: once no read is pending for an upload slot and none has failed, the
\* slot holds what the last action dispatched on it asked for: the file
\* selected last, whatever the order in which the reads completed, and
\* nothing when the last action was removeFile.
C32_LastDispatchedWins ==
    \A target \in {"fronte", "retro"} :
        LET zone == fields[3][target]
        IN  (/\ zone.reading = <<>>
             /\ zone.error = ""
             /\ zone.dispatched # Null)
            => IF zone.dispatched = Str("removed")
               THEN \A k \in DOMAIN Staged(target) : Falsy(Staged(target)[k])
               ELSE Staged(target) = StagedFrom(zone.dispatched)

\* The interval timers that are active
ActiveTimers(p) == {i \in 1 .. Len(p.tickers) : p.tickers[i].timer}

\* A submission that starts leaves one ticker showing the first message
TickerStarts ==
    sub'.started > sub.started =>
        \E i \in ActiveTimers(sub') :
            /\ sub'.tickers[i].id = sub'.loadingInterval
            /\ sub'.tickers[i].text = 0 /\ sub'.tickers[i].shown

\* A firing timer moves its message to the next one and holds on the last
TickerInOrder ==
    last'.op = "tick" =>
        \A i \in 1 .. Len(sub.tickers) :
            \A j \in 1 .. Len(sub'.tickers) :
                sub'.tickers[j].id = sub.tickers[i].id =>
                    \/ sub'.tickers[j].text = sub.tickers[i].text
                    \/ /\ sub.tickers[i].id = last'.step
                       /\ sub'.tickers[j].text = sub.tickers[i].text + 1
                       /\ sub'.tickers[j].text < LOADING_MESSAGES_length

\* No timer is active once the submission has reached its outcome
TickerStopped ==
    (sub'.flights = <<>> /\ sub'.done.outcome # "none")
        => ActiveTimers(sub') = {}

\* C33: the ticker starts when a submission starts, shows the messages in
\* order without skipping or wrapping and holds on the last one, no ticker
\* timer is active once the submission has reached its outcome (success or
\* exhausted retries), and at most one ticker timer exists at any time.
C33_TickerLifecycle ==
    [][/\ TickerStarts
       /\ TickerInOrder
       /\ TickerStopped
       /\ Cardinality(ActiveTimers(sub')) <= 1]_vars

-----------------------------------------------------------------------------
(* A submission and what happens to the form while it is in flight: the    *)
(* user goes back, edits a field, stages or removes a document, and the     *)
(* retries go out.                                                           *)

\* a record saveState wrote on the last step, a document being staged
PayloadRecord ==
    JSONstringify([currentStep |-> Num(6),
                   formData |-> [defaultState.formData EXCEPT
                       !["step1"] = [nome |-> Str("Verdi")],
                       !["step3"] =
                           [k \in {"documento-fronte",
                                   "documento-fronte-filename",
                                   "documento-fronte-size",
                                   "documento-fronte-type"} |->
                               CASE k = "documento-fronte" ->
                                        Text(<<"data:", "image/jpeg",
                                               ";base64,", "AAAA">>)
                                 [] k = "documento-fronte-filename" -> Str("doc")
                                 [] k = "documento-fronte-size" -> Num(1)
                                 [] OTHER -> Str("image/jpeg")]],
                   totalSteps |-> Num(7),
                   lastUpdated |-> ISOString(-1)])

InitPayload ==
    LET p == PageReady(PayloadRecord, "ok", 0, "load")
    IN  /\ medium = "ok"
        /\ now = 0
        /\ state = p.state
        /\ localStorageAvailable = p.localStorageAvailable
        /\ item = p.item
        /\ activeSteps = p.activeSteps
        /\ chrome = p.chrome
        /\ fields = p.fields
        /\ saved = p.saved
        /\ last = p.last
        /\ written = Null
        /\ copy = NoCopy
        /\ sub = p.sub

\* The user types into the personal-data view
NameInput == InputAt({1})

NextPayload ==
    \/ ToggleConsent
    \/ SubmitClick
    \/ Respond
    \/ BackoffElapsed
    \/ NavigateBackward
    \/ EditStep
    \/ NameInput
    \/ ChooseFile
    \/ FileLoaded
    \/ RemoveFile

SpecPayload == InitPayload /\ [][NextPayload]_vars

-----------------------------------------------------------------------------
(* From the documents view to the thank-you page: a document is chosen,    *)
(* the user goes on to the privacy view and submits, and the read of the   *)
(* document finishes at any moment, before or after the submission's        *)
(* outcome.                                                                  *)

InitFlow ==
    LET p == PageReady(SavedRecord, "ok", 0, "load")
    IN  /\ medium = "ok"
        /\ now = 0
        /\ state = p.state
        /\ localStorageAvailable = p.localStorageAvailable
        /\ item = p.item
        /\ activeSteps = p.activeSteps
        /\ chrome = p.chrome
        /\ fields = p.fields
        /\ saved = p.saved
        /\ last = p.last
        /\ written = Null
        /\ copy = NoCopy
        /\ sub = p.sub

ChooseFileFlow == ChooseFileIn(MaxFlowEvents)
NavigateForwardFlow == NavigateForwardIn(MaxFlowEvents)

NextFlow ==
    \/ ChooseFileFlow
    \/ FileLoaded
    \/ NavigateForwardFlow
    \/ ToggleConsent
    \/ SubmitClick
    \/ Respond
    \/ BackoffElapsed

SpecFlow == InitFlow /\ [][NextFlow]_vars

-----------------------------------------------------------------------------
(* One page session on the privacy view, to its end: the listeners of the  *)
(* checkbox and of the submit button stay attached to their elements after *)
(* the thank-you page has replaced the form, so change and click events    *)
(* on them are followed after the success as well.                          *)

InitSession ==
    LET p == PageReady(Step6Record, "ok", 0, "load")
    IN  /\ medium = "ok"
        /\ now = 0
        /\ state = p.state
        /\ localStorageAvailable = p.localStorageAvailable
        /\ item = p.item
        /\ activeSteps = p.activeSteps
        /\ chrome = p.chrome
        /\ fields = p.fields
        /\ saved = p.saved
        /\ last = p.last
        /\ written = Null
        /\ copy = NoCopy
        /\ sub = p.sub

\* A change event of the consent checkbox
ConsentChange ==
    /\ sub.armed
    /\ sub' = onConsentChange([sub EXCEPT !.checked = ~@])
    /\ last' = Op("consent", Undefined, "", Bool(~sub.checked), World)
    /\ UNCHANGED <<state, localStorageAvailable, item, medium, now,
                   activeSteps, chrome, fields, copy, saved, written>>

\* A click event of the submit button
ClickEvent ==
    LET r == handleSubmit(World, sub)
    IN  /\ sub.armed
        /\ sub.started < MaxSubmissions
        /\ CommitWorld(r.w)
        /\ sub' = r.p
        /\ last' = Op("submit", Undefined, "", Bool(sub.success), r.w)
        /\ UNCHANGED <<medium, now, copy, written>>

NextSession ==
    \/ ConsentChange
    \/ ClickEvent
    \/ Respond
    \/ BackoffElapsed

SpecSession == InitSession /\ [][NextSession]_vars

-----------------------------------------------------------------------------
(* The tracking question of the notes view: the radio group                *)
(* "tracking-source", the referral input "referral-name" and the block      *)
(* #referral-field around it, which the markup of the page keeps hidden      *)
(* until a script shows it (Null: as the markup has it).  fields[4] carries  *)
(* the checked option (Str("") for none), the text of the input and the      *)
(* inline display of the block.                                               *)

TrackingOptions == {"passaparola", "google", "social"}

\* restoreFieldValues on the radio group and the referral input, then
\* restoreTrackingState of StepFields
restoreTracking(flds, st) ==
    LET stepData == getStepData([FreshWorld(Null, "ok", 0) EXCEPT !.state = st],
                                Num(4)).value
        radio == IF Get(stepData, "tracking-source")
                        \in {Str(o) : o \in TrackingOptions}
                 THEN stepData["tracking-source"] ELSE Str("")
        text == IF Falsy(Get(stepData, "referral-name")) THEN Str("")
                ELSE ControlText(stepData["referral-name"])
    IN  [flds EXCEPT ![4] =
            Put(Put(Put(@, "tracking-source", radio), "referral-name", text),
                "referral-field",
                IF radio = Str("passaparola") THEN Str("block") ELSE Null)]

\* The change listener of the radios that clears the input but not FormState
onTrackingChange_InputOnly(w) ==
    IF w.fields[4]["tracking-source"] = Str("passaparola")
    THEN [w EXCEPT !.fields[4]["referral-field"] = Str("block")]
    ELSE [w EXCEPT !.fields[4]["referral-field"] = Str("none"),
                   !.fields[4]["referral-name"] = Str("")]

\* The change listener handleTrackingSelection attaches to every radio
onTrackingChange(w) ==
    IF w.fields[4]["tracking-source"] = Str("passaparola")
    THEN [w EXCEPT !.fields[4]["referral-field"] = Str("block")]
    ELSE setFieldValue([w EXCEPT !.fields[4]["referral-field"] = Str("none"),
                                 !.fields[4]["referral-name"] = Str("")],
                       Num(4), "referral-name", Str(""))

InitReferral ==
    \E m \in {"ok", "full"} :
        LET p == PageReady(Step4Record, m, 0, "load")
        IN  /\ medium = m
            /\ now = 0
            /\ state = p.state
            /\ localStorageAvailable = p.localStorageAvailable
            /\ item = p.item
            /\ activeSteps = p.activeSteps
            /\ chrome = p.chrome
            /\ fields = restoreTracking(p.fields, p.state)
            /\ saved = p.saved
            /\ last = p.last
            /\ written = Null
            /\ copy = NoCopy
            /\ sub = p.sub

\* The user picks another option of the radio group: the input event reaches
\* the delegated onFieldChange, then the change event reaches the radio's own
\* listener and the delegated onFieldChange.  last.value is the text the
\* referral input held before.
TrackingChange ==
    \E o \in TrackingOptions :
        LET w0 == [World EXCEPT !.fields[4]["tracking-source"] = Str(o)]
            w == onFieldChange(
                     onTrackingChange(onFieldChange(w0, 4, "tracking-source")),
                     4, "tracking-source")
        IN  /\ 4 \in activeSteps
            /\ fields[4]["tracking-source"] # Str(o)
            /\ Called(MaxEvents)
            /\ Commit(w)
            /\ last' = Op("trackingChange", Num(4), "tracking-source",
                          fields[4]["referral-name"], w)
            /\ UNCHANGED <<medium, copy, written>>

\* The user types into the referral input while its block is shown
ReferralInput ==
    \E v \in ControlInputs("referral-name") :
        LET w == onFieldChange([World EXCEPT !.fields[4]["referral-name"] = v],
                               4, "referral-name")
        IN  /\ 4 \in activeSteps
            /\ fields[4]["referral-field"] = Str("block")
            /\ Called(MaxEvents)
            /\ Commit(w)
            /\ last' = Op("input", Num(4), "referral-name", v, w)
            /\ UNCHANGED <<medium, copy, written>>

\* The page is loaded again: the session is restored from storage
ReloadReferral ==
    LET p == PageReady(item, medium, now, "reload")
    IN  /\ last.op # "reload"
        /\ state' = p.state
        /\ localStorageAvailable' = p.localStorageAvailable
        /\ item' = p.item
        /\ activeSteps' = p.activeSteps
        /\ chrome' = p.chrome
        /\ fields' = restoreTracking(p.fields, p.state)
        /\ saved' = IF p.item = item THEN saved ELSE p.saved
        /\ last' = p.last
        /\ sub' = p.sub
        /\ UNCHANGED <<medium, now, copy, written>>

NextReferral ==
    \/ TrackingChange
    \/ ReferralInput
    \/ ReloadReferral
    \/ StorageFills

SpecReferral == InitReferral /\ [][NextReferral]_vars

\* The body the code would build from the form state st
BodyOf(st) == RequestBody(BuildPayload([World EXCEPT !.state = st]))

\* C34: the first request of a submission carries the JSON text of
\* {action: "submit", data: flatten(formData), files: attachments} built from
\* the form state at the moment of the submit click, and as long as the
\* submission stays in flight every request issued for it (the first try and
\* every retry) carries that same body, whatever is written to the form
\* state in between.
C34_PayloadSnapshot ==
    [][/\ Len(sub'.flights) > Len(sub.flights) =>
            /\ sub'.sent = <<BodyOf(state)>>
            /\ BodyOf(state).value =
                  [action |-> Str("submit"),
                   data |-> JsonValue(flattenFormData(
                                getState(World).value.formData)),
                   files |-> [k \in DOMAIN getFilesFromState(World) |->
                                 JsonValue(processedFiles(
                                     getFilesFromState(World))[k])]]
       /\ (sub.flights # <<>> /\ sub'.flights # <<>>) =>
            /\ Len(sub'.sent) = sub'.flights[1].attempt
            /\ \A k \in DOMAIN sub'.sent : sub'.sent[k] = sub.sent[1]]_vars

\* A retry has been sent after the form state changed during the submission
C34_Witness ==
    /\ Len(sub.flights) = 1
    /\ sub.flights[1].attempt >= 2
    /\ Len(sub.sent) >= 2
    /\ BodyOf(state) # sub.sent[1]
    /\ sub.sent[2] = sub.sent[1]

\* C35: after the page has loaded and after every navigation, exactly one
\* step view is active and its index is FormState.getCurrentStep().
C35_ViewMatchesCurrentStep ==
    \E k \in StepViews :
        /\ activeSteps = {k}
        /\ getCurrentStep(World) = Num(k)

\* C36: while a submission is in flight, from the click that set
\* hasSubmitted until its success or failure, the submit button is disabled.
C36_DisabledInFlight ==
    sub.flights # <<>> => sub.hasSubmitted /\ sub.disabled

\* C37: once a submission has succeeded and the form state has been
\* cleared, the form data in memory stays empty and the stored form record
\* is not written again for the rest of the page session.
C37_ClearedForGood ==
    [][sub'.success =>
          /\ state'.formData = defaultState.formData
          /\ sub.success => item' = item]_vars

\* C38: a submission that succeeds leaves hasSubmitted set, and from then on
\* in the page session hasSubmitted stays set, no delivery attempt is
\* started and no second outcome is reached, whatever clicks and checkbox
\* changes follow.
C38_OneSuccessPerSession ==
    [][/\ sub'.done.outcome = "success" => sub'.hasSubmitted
       /\ sub.done.outcome = "success" =>
            /\ sub'.hasSubmitted
            /\ sub'.flights = <<>>
            /\ sub'.sent = <<>>
            /\ sub'.started = sub.started
            /\ sub'.done = sub.done]_vars

\* The submit button has been clicked, the consent ticked, after the success
C38_Witness ==
    /\ sub.done.outcome = "success"
    /\ sub.success /\ sub.checked
    /\ last.op = "submit" /\ last.value = Bool(TRUE)
    /\ sub.flights = <<>>

\* The messages of the blocking verdicts of CodiceFiscale.validateField on a
\* fiscal code that is not empty
CfVerdicts ==
    {"Deve avere 16 caratteri", "Formato non corretto",
     "Carattere di controllo non valido"}

\* C39: while the fiscal-code input carries a blocking verdict of the
\* fiscal-code validator as its custom validity, navigateForward() on the
\* personal-data step does not advance and the step gate returns false.
C39_VerdictBlocksGate ==
    [][(/\ last'.op = "navigateForward"
        /\ 1 \in activeSteps
        /\ fields[1]["codice-fiscale"].customValidity \in CfVerdicts
        /\ fields[1]["codice-fiscale"].ariaInvalid) =>
            /\ activeSteps' = activeSteps
            /\ getCurrentStep(World)' = getCurrentStep(World)
            /\ last'.value = Bool(FALSE)]_vars

\* The step-4 data d names a tracking source other than word of mouth
\* together with a referral name that is not empty
Inconsistent(d) ==
    /\ Get(d, "tracking-source") # Str("passaparola")
    /\ ~Falsy(Get(d, "referral-name"))

\* C40: between the events of the page (a change of the tracking source
\* handled by the radio's listener and by the delegated handler, an input,
\* a session restore) the form state, the stored record and the flattened
\* payload never hold a referral name that is not empty together with a
\* tracking source other than word of mouth.
C40_ReferralConsistency ==
    /\ ~Inconsistent(getStepData(World, Num(4)).value)
    /\ (item # Null /\ ~JSONparseThrows(item)) =>
           ~Inconsistent(JSONparse(item).formData.step4)
    /\ LET flat == flattenFormData(getState(World).value.formData)
       IN  ~Falsy(Get(flat, "chiPresentato")) =>
               Get(flat, "comeConosciuto") = Str("passaparola")

\* The user has moved from word of mouth, a referral name typed in, to
\* another source
C40_Witness ==
    /\ last.op = "trackingChange"
    /\ last.value = Str("Rossi")
    /\ getStepData(World, Num(4)).value["tracking-source"] = Str("google")
    /\ getStepData(World, Num(4)).value["referral-name"] = Str("")
    /\ fields[4]["referral-field"] = Str("none")

====
